---- MODULE Spec2Model ----
(***************************************************************************)
(* Model of clod: a terminal drawing engine with a double-buffered,        *)
(* diffed renderer (src/engine/renderer.rs), a half-block canvas           *)
(* (src/engine/mod.rs) and the frame loop that drives them (src/lib.rs).   *)
(***************************************************************************)
EXTENDS Integers, Sequences, FiniteSets

VARIABLES
    pc,            \* position of App::run
    result,        \* what App::run returned ("none" while running)
    quit,          \* State.quit
    display,       \* DoubleBuffer.display: the last-rendered grid
    hidden,        \* DoubleBuffer.hidden: the write grid
    size,          \* DoubleBuffer.size, <<x, y>> in cells
    default_cell,  \* DoubleBuffer.default_cell: None or a Cell
    redraw,        \* Renderer.redraw
    term,          \* terminal mode: raw mode, alternate screen, hidden cursor
    hook,          \* the panic hook installed by Renderer::init
    out,           \* commands written to stdout by the step that led here
    key,           \* the key event being handled by the poll loop
    overflow_checks, \* build profile: TRUE panics on integer overflow, FALSE wraps
    frames,        \* renders completed
    ops,           \* canvas calls made so far
    term_size,     \* history: the terminal size most recently received
    swaps,         \* history: swaps since the last write to the buffer (capped)
    resized,       \* history: resize() was called since the last completed render
    restored,      \* history: restoration steps performed since construction
    screen,        \* the terminal's screen: the cells printed on, by position
    altered,       \* history: cells a drawing call changed since the write grid was filled
    last           \* history: the operation that produced this state

vars == <<pc, result, quit, display, hidden, size, default_cell, redraw, term,
          hook, out, key, overflow_checks, frames, ops, term_size, swaps, resized,
          restored, screen, altered, last>>

(***************************************************************************)
(* Bounds of the model.                                                    *)
(***************************************************************************)
MaxW == 2
MaxH == 1
MaxOps == 2
MaxRunOps == 1
MaxFrames == 2
MaxLine == 1

(***************************************************************************)
(* Values.                                                                 *)
(***************************************************************************)
\* Option: None, or the value itself for a colour or a position;
\* the cell of an Option<Cell> is wrapped with Some
None == <<>>

Some(v) == <<v>>

\* crossterm::style::Color, as used by the drawing calls
Colors == {<<"Red">>, <<"Blue">>}

White == <<"White">>

\* u16 arithmetic: the value kept by a wrapping operation or an `as u16` cast
U16Range == 2 ^ 16

U16(n) == n % U16Range

Overflows(n) == n >= U16Range

\* glyphs of a Cell
SPACE == " "
UPPER_HALF == "upper_half_block"
LOWER_HALF == "lower_half_block"
FULL_BLOCK == "full_block"

NoAttributes == {}

ContentStyle_default ==
    [foreground_color |-> None, background_color |-> None,
     underline_color |-> None, attributes |-> NoAttributes]

Cell_default == [c |-> SPACE, style |-> ContentStyle_default]

with_background_color(color) ==
    [c |-> SPACE,
     style |-> [ContentStyle_default EXCEPT !.background_color = color]]

(***************************************************************************)
(* BlockCell / BlockCellMut: a cell read and written as two sub-pixels.    *)
(***************************************************************************)
at_top(cell) ==
    CASE cell.c = SPACE -> None
      [] cell.c \in {UPPER_HALF, FULL_BLOCK} -> cell.style.foreground_color
      [] cell.c = LOWER_HALF -> cell.style.background_color
      [] OTHER -> None

at_bottom(cell) ==
    CASE cell.c = SPACE -> None
      [] cell.c \in {LOWER_HALF, FULL_BLOCK} -> cell.style.foreground_color
      [] cell.c = UPPER_HALF -> cell.style.background_color
      [] OTHER -> None

\* unset_top that leaves an upper half block without a colour in place
unset_top_without_collapse(cell) ==
    CASE cell.c = SPACE ->
            IF cell.style.background_color # None
            THEN [cell EXCEPT !.c = LOWER_HALF,
                              !.style.foreground_color = cell.style.background_color,
                              !.style.background_color = None]
            ELSE cell
      [] cell.c = UPPER_HALF ->
            IF cell.style.background_color # None
            THEN [cell EXCEPT !.c = LOWER_HALF,
                              !.style.foreground_color = cell.style.background_color,
                              !.style.background_color = None]
            ELSE [cell EXCEPT !.style.foreground_color = None]
      [] cell.c = LOWER_HALF -> [cell EXCEPT !.style.background_color = None]
      [] cell.c = FULL_BLOCK ->
            [cell EXCEPT !.c = LOWER_HALF, !.style.background_color = None]
      [] OTHER ->
            [cell EXCEPT !.c = SPACE, !.style.foreground_color = None,
                         !.style.background_color = None]

unset_top(cell) ==
    CASE cell.c = SPACE ->
            IF cell.style.background_color # None
            THEN [cell EXCEPT !.c = LOWER_HALF,
                              !.style.foreground_color = cell.style.background_color,
                              !.style.background_color = None]
            ELSE cell
      [] cell.c = UPPER_HALF ->
            IF cell.style.background_color # None
            THEN [cell EXCEPT !.c = LOWER_HALF,
                              !.style.foreground_color = cell.style.background_color,
                              !.style.background_color = None]
            ELSE [cell EXCEPT !.c = SPACE, !.style.foreground_color = None]
      [] cell.c = LOWER_HALF -> [cell EXCEPT !.style.background_color = None]
      [] cell.c = FULL_BLOCK ->
            [cell EXCEPT !.c = LOWER_HALF, !.style.background_color = None]
      [] OTHER ->
            [cell EXCEPT !.c = SPACE, !.style.foreground_color = None,
                         !.style.background_color = None]

unset_bottom(cell) ==
    CASE cell.c = SPACE ->
            IF cell.style.background_color # None
            THEN [cell EXCEPT !.c = UPPER_HALF,
                              !.style.foreground_color = cell.style.background_color,
                              !.style.background_color = None]
            ELSE cell
      [] cell.c = UPPER_HALF -> [cell EXCEPT !.style.background_color = None]
      [] cell.c = LOWER_HALF ->
            IF cell.style.background_color # None
            THEN [cell EXCEPT !.c = UPPER_HALF,
                              !.style.foreground_color = cell.style.background_color,
                              !.style.background_color = None]
            ELSE [cell EXCEPT !.c = SPACE, !.style.foreground_color = None]
      [] cell.c = FULL_BLOCK ->
            [cell EXCEPT !.c = UPPER_HALF, !.style.background_color = None]
      [] OTHER ->
            [cell EXCEPT !.c = SPACE, !.style.foreground_color = None,
                         !.style.background_color = None]

\* set_top that writes the foreground slot of a full block
set_top_foreground(cell, color) ==
    IF color = None THEN unset_top(cell)
    ELSE CASE cell.c = SPACE ->
                [cell EXCEPT !.c = UPPER_HALF, !.style.foreground_color = color]
           [] cell.c = UPPER_HALF -> [cell EXCEPT !.style.foreground_color = color]
           [] cell.c = LOWER_HALF -> [cell EXCEPT !.style.background_color = color]
           [] cell.c = FULL_BLOCK ->
                [cell EXCEPT !.c = LOWER_HALF, !.style.foreground_color = color]
           [] OTHER ->
                [cell EXCEPT !.c = UPPER_HALF, !.style.foreground_color = color,
                             !.style.background_color = None]

set_top(cell, color) ==
    IF color = None THEN unset_top(cell)
    ELSE CASE cell.c = SPACE ->
                [cell EXCEPT !.c = UPPER_HALF, !.style.foreground_color = color]
           [] cell.c = UPPER_HALF -> [cell EXCEPT !.style.foreground_color = color]
           [] cell.c = LOWER_HALF -> [cell EXCEPT !.style.background_color = color]
           [] cell.c = FULL_BLOCK ->
                [cell EXCEPT !.c = LOWER_HALF, !.style.background_color = color]
           [] OTHER ->
                [cell EXCEPT !.c = UPPER_HALF, !.style.foreground_color = color,
                             !.style.background_color = None]

set_bottom(cell, color) ==
    IF color = None THEN unset_bottom(cell)
    ELSE CASE cell.c = SPACE ->
                [cell EXCEPT !.c = LOWER_HALF, !.style.foreground_color = color]
           [] cell.c = UPPER_HALF -> [cell EXCEPT !.style.background_color = color]
           [] cell.c = LOWER_HALF -> [cell EXCEPT !.style.foreground_color = color]
           [] cell.c = FULL_BLOCK ->
                [cell EXCEPT !.c = UPPER_HALF, !.style.background_color = color]
           [] OTHER ->
                [cell EXCEPT !.c = LOWER_HALF, !.style.foreground_color = color,
                             !.style.background_color = None]

(***************************************************************************)
(* DoubleBuffer.                                                           *)
(***************************************************************************)
\* U16Vec2::element_product, wrapping as the release build does
element_product(sz) == U16(sz[1] * sz[2])

\* Option<Cell>::unwrap_or_default
unwrap_or_default(cell) == IF cell = None THEN Cell_default ELSE cell[1]

\* vec![cell; n], Vec::resize on a cleared vector, and slice::fill
filled(n, cell) == [i \in 1..n |-> cell]

from_size(sz) ==
    [display |-> filled(element_product(sz), Cell_default),
     hidden |-> filled(element_product(sz), Cell_default),
     size |-> sz,
     default_cell |-> None]

\* a resize that refills with blank cells, forgetting default_cell
resize_with_blank_cells(sz) ==
    IF size = sz
    THEN [display |-> display, hidden |-> hidden, size |-> size]
    ELSE [display |-> filled(element_product(sz), Cell_default),
          hidden |-> filled(element_product(sz), Cell_default),
          size |-> sz]

\* DoubleBuffer::resize: the buffer after the call
resize(sz) ==
    IF size = sz
    THEN [display |-> display, hidden |-> hidden, size |-> size]
    ELSE [display |-> filled(element_product(sz), unwrap_or_default(default_cell)),
          hidden |-> filled(element_product(sz), unwrap_or_default(default_cell)),
          size |-> sz]

\* a swap that exchanges the grids and does not fill the new write grid
swap_without_fill == [display |-> hidden, hidden |-> display]

\* DoubleBuffer::swap: the two grids after the call
swap ==
    [display |-> hidden,
     hidden |-> filled(Len(display), unwrap_or_default(default_cell))]

bounds(position) == size[1] > position[1] /\ size[2] > position[2]

position_to_index(pos) == U16(size[1] * pos[2] + pos[1])

index_to_position(idx) == <<U16(idx) % size[1], U16(idx) \div size[1]>>

\* Vec::get on a grid: None past the end
get(grid, index) == IF index < Len(grid) THEN Some(grid[index + 1]) ELSE None

\* DoubleBuffer::at (and at_mut): the cell of the write grid at a cell position
buffer_at(grid, normalized_position) ==
    IF ~bounds(normalized_position) THEN None
    ELSE get(grid, position_to_index(normalized_position))

\* DoubleBuffer::diff: the <<cell, position>> pairs to emit, in index order
RECURSIVE diff_from(_, _)
diff_from(i, force) ==
    IF i >= Len(hidden) THEN <<>>
    ELSE (IF force \/ get(hidden, i) # get(display, i)
          THEN <<[cell |-> hidden[i + 1], pos |-> index_to_position(i)]>>
          ELSE <<>>) \o diff_from(i + 1, force)

diff(force) == diff_from(0, force)

(***************************************************************************)
(* SimpleCanvas: pixel addressing.                                         *)
(***************************************************************************)
\* IVec2::as_u16vec2: an `as` cast of each component
as_u16vec2(pos) == <<U16(pos[1]), U16(pos[2])>>

\* SimpleCanvas::size
canvas_size == <<size[1], U16(size[2] * 2)>>

half_block_position_to_rendered_position(pos) ==
    IF pos[1] >= canvas_size[1] \/ pos[2] >= canvas_size[2] THEN None
    ELSE <<pos[1], pos[2] \div 2>>

\* SimpleCanvas::draw on a write grid: the grid after the call
draw(grid, pos, color) ==
    LET rendered == half_block_position_to_rendered_position(pos) IN
    IF rendered = None THEN grid
    ELSE IF buffer_at(grid, rendered) = None THEN grid
    ELSE [grid EXCEPT ![position_to_index(rendered) + 1] =
            IF pos[2] % 2 = 0 THEN set_top(@, color) ELSE set_bottom(@, color)]

color_at(grid, pos) ==
    LET rendered == half_block_position_to_rendered_position(pos) IN
    IF rendered = None THEN None
    ELSE LET cell == buffer_at(grid, rendered) IN
         IF cell = None THEN None
         ELSE IF pos[2] % 2 = 0 THEN at_top(cell[1]) ELSE at_bottom(cell[1])

\* SimpleCanvas::at
at(pos) ==
    IF pos[1] < 0 \/ pos[2] < 0 THEN None ELSE color_at(hidden, as_u16vec2(pos))

\* SimpleCanvas::point_with_color: the write grid after the call
point_with_color(grid, pos, color) ==
    IF pos[1] < 0 \/ pos[2] < 0 THEN grid ELSE draw(grid, as_u16vec2(pos), color)

\* SimpleCanvas::erase: the write grid after the call
erase(grid, pos) ==
    IF pos[1] < 0 \/ pos[2] < 0 THEN grid ELSE draw(grid, as_u16vec2(pos), None)

(***************************************************************************)
(* line_drawing::Bresenham, the iterator draw_line walks.                  *)
(***************************************************************************)
Octant(start, end) ==
    LET dx0 == end[1] - start[1]
        dy0 == end[2] - start[2]
        dx1 == IF dy0 < 0 THEN -dx0 ELSE dx0
        dy1 == IF dy0 < 0 THEN -dy0 ELSE dy0
        v1 == IF dy0 < 0 THEN 4 ELSE 0
        dx2 == IF dx1 < 0 THEN dy1 ELSE dx1
        dy2 == IF dx1 < 0 THEN -dx1 ELSE dy1
        v2 == IF dx1 < 0 THEN v1 + 2 ELSE v1
    IN IF dx2 < dy2 THEN v2 + 1 ELSE v2

octant_to(o, p) ==
    CASE o = 0 -> <<p[1], p[2]>>
      [] o = 1 -> <<p[2], p[1]>>
      [] o = 2 -> <<p[2], -p[1]>>
      [] o = 3 -> <<-p[1], p[2]>>
      [] o = 4 -> <<-p[1], -p[2]>>
      [] o = 5 -> <<-p[2], -p[1]>>
      [] o = 6 -> <<-p[2], p[1]>>
      [] OTHER -> <<p[1], -p[2]>>

octant_from(o, p) ==
    CASE o = 0 -> <<p[1], p[2]>>
      [] o = 1 -> <<p[2], p[1]>>
      [] o = 2 -> <<-p[2], p[1]>>
      [] o = 3 -> <<-p[1], p[2]>>
      [] o = 4 -> <<-p[1], -p[2]>>
      [] o = 5 -> <<-p[2], -p[1]>>
      [] o = 6 -> <<p[2], -p[1]>>
      [] OTHER -> <<p[1], -p[2]>>

RECURSIVE bresenham_next(_, _, _, _, _, _)
bresenham_next(o, point, end_x, delta_x, delta_y, error) ==
    IF point[1] > end_x THEN <<>>
    ELSE <<octant_from(o, point)>> \o
         bresenham_next(o,
                        <<point[1] + 1, IF error >= 0 THEN point[2] + 1 ELSE point[2]>>,
                        end_x, delta_x, delta_y,
                        (IF error >= 0 THEN error - delta_x ELSE error) + delta_y)

Bresenham(start, end) ==
    LET o == Octant(start, end)
        s == octant_to(o, start)
        e == octant_to(o, end)
    IN bresenham_next(o, s, e[1], e[1] - s[1], e[2] - s[2],
                      (e[2] - s[2]) - (e[1] - s[1]))

\* SimpleCanvas::draw_line: the write grid after walking the points from k on
RECURSIVE draw_points(_, _, _, _)
draw_points(grid, points, k, color) ==
    IF k > Len(points) THEN grid
    ELSE draw_points(IF points[k][1] < 0 \/ points[k][2] < 0 THEN grid
                     ELSE draw(grid, as_u16vec2(points[k]), color),
                     points, k + 1, color)

draw_line(grid, start, end, color) ==
    draw_points(grid, Bresenham(start, end), 1, color)

(***************************************************************************)
(* Style (src/style/mod.rs) and SimpleCanvas::print_styled_content.        *)
(***************************************************************************)
BorderStyle_default ==
    [top_border |-> None, bottom_border |-> None,
     right_border |-> None, left_border |-> None]

Padding_default ==
    [top_padding |-> 0, bottom_padding |-> 0, right_padding |-> 0, left_padding |-> 0]

\* PrintStyle::default(); an alignment is None or Some(set of flags)
PrintStyle_default ==
    [foreground_color |-> None, background_color |-> None,
     underline_color |-> None, border_style |-> BorderStyle_default,
     padding |-> Padding_default, alignment |-> None, attributes |-> NoAttributes]

\* BorderStyle::left_width .. bottom_width, with border_width() = 1
border_left_width(b) == IF b.left_border = None THEN 0 ELSE 1

border_right_width(b) == IF b.right_border = None THEN 0 ELSE 1

border_top_width(b) == IF b.top_border = None THEN 0 ELSE 1

border_bottom_width(b) == IF b.bottom_border = None THEN 0 ELSE 1

\* PrintStyle::left_width .. extra_height
left_width(style) == style.padding.left_padding + border_left_width(style.border_style)

right_width(style) == style.padding.right_padding + border_right_width(style.border_style)

top_width(style) == style.padding.top_padding + border_top_width(style.border_style)

bottom_width(style) ==
    style.padding.bottom_padding + border_bottom_width(style.border_style)

extra_width(style) == left_width(style) + right_width(style)

extra_height(style) == top_width(style) + bottom_width(style)

content_style(style) ==
    [foreground_color |-> style.foreground_color,
     background_color |-> style.background_color,
     underline_color |-> style.underline_color,
     attributes |-> style.attributes]

\* f32 -> u16 `as` cast of a value given in quarters: truncates, saturates
quarters_as_u16(q) ==
    IF q < 0 THEN 0 ELSE IF q \div 4 >= U16Range THEN U16Range - 1 ELSE q \div 4

\* CanvasAlignment::apply; the f32 vectors are kept in quarters
\* (half_size = 2 * size quarters), which is exact for u16 sizes
apply(alignment, of_size) ==
    LET half_x == 2 * of_size[1]
        half_y == 2 * of_size[2]
        some == alignment \cap {"TOP", "BOTTOM", "LEFT", "RIGHT"} # {}
        sum_x == (IF "LEFT" \in alignment THEN -half_x ELSE 0)
                 + (IF "RIGHT" \in alignment THEN half_x ELSE 0)
        sum_y == (IF "TOP" \in alignment THEN -half_y ELSE 0)
                 + (IF "BOTTOM" \in alignment THEN half_y ELSE 0)
        \* CENTER halves the accumulated vector; halving quarters stays
        \* exact because each component is a multiple of 2 quarters
        cur_x == IF "CENTER" \in alignment THEN sum_x \div 2 ELSE sum_x
        cur_y == IF "CENTER" \in alignment THEN sum_y \div 2 ELSE sum_y
    IN IF some
       THEN <<quarters_as_u16(half_x + cur_x), quarters_as_u16(half_y + cur_y)>>
       ELSE <<quarters_as_u16(half_x), quarters_as_u16(half_y)>>

\* UnicodeWidthStr::width: columns of a text, one or two per glyph
WideGlyphs == {"wide_glyph"}

RECURSIVE width(_)
width(content) ==
    IF content = <<>> THEN 0
    ELSE (IF Head(content) \in WideGlyphs THEN 2 ELSE 1) + width(Tail(content))

Min(a, b) == IF a < b THEN a ELSE b

saturating_sub(a, b) == IF a < b THEN 0 ELSE a - b

\* the pixels of `for y in y0..y1 { for x in x0..x1 {` in loop order
box_pixels(x0, x1, y0, y1) ==
    IF x1 <= x0 \/ y1 <= y0 THEN <<>>
    ELSE [k \in 1..((x1 - x0) * (y1 - y0)) |->
            <<x0 + ((k - 1) % (x1 - x0)), y0 + ((k - 1) \div (x1 - x0))>>]

\* the draws of the border loop at one pixel, in the order of the four ifs
border_draws(style, pos, x0, x1, y0, y1) ==
    LET b == style.border_style IN
    (IF b.left_border # None /\ pos[1] = x0
     THEN <<[pos |-> pos, color |-> b.left_border]>> ELSE <<>>)
    \o (IF b.right_border # None /\ pos[1] = x1 - 1
        THEN <<[pos |-> pos, color |-> b.right_border]>> ELSE <<>>)
    \o (IF b.top_border # None /\ pos[2] = y0
        THEN <<[pos |-> pos, color |-> b.top_border]>> ELSE <<>>)
    \o (IF b.bottom_border # None /\ pos[2] = y1 - 1
        THEN <<[pos |-> pos, color |-> b.bottom_border]>> ELSE <<>>)

RECURSIVE all_border_draws(_, _, _, _, _, _, _)
all_border_draws(style, pixels, k, x0, x1, y0, y1) ==
    IF k > Len(pixels) THEN <<>>
    ELSE border_draws(style, pixels[k], x0, x1, y0, y1)
         \o all_border_draws(style, pixels, k + 1, x0, x1, y0, y1)

\* the index of the cell a draw() call changes, or -1 when it changes none
draw_target(grid, pos) ==
    LET rendered == half_block_position_to_rendered_position(pos) IN
    IF rendered = None THEN -1
    ELSE IF buffer_at(grid, rendered) = None THEN -1
    ELSE position_to_index(rendered)

\* the draw() calls of a sequence applied to the one cell they address
RECURSIVE draw_cell(_, _, _)
draw_cell(cell, draws, k) ==
    IF k > Len(draws) THEN cell
    ELSE draw_cell(IF draws[k].pos[2] % 2 = 0 THEN set_top(cell, draws[k].color)
                   ELSE set_bottom(cell, draws[k].color),
                   draws, k + 1)

\* a sequence of draw() calls applied to a grid, from call k on: a call
\* changes only the cell it addresses, so each cell takes its own calls in
\* their order
apply_draws(grid, draws, k) ==
    LET addressed == [j \in 1..Len(draws) |->
                        [pos |-> draws[j].pos, color |-> draws[j].color,
                         target |-> IF j < k THEN -1
                                    ELSE draw_target(grid, draws[j].pos)]]
        touched == {addressed[j].target : j \in 1..Len(draws)}
    IN [i \in 1..Len(grid) |->
          IF (i - 1) \notin touched THEN grid[i]
          ELSE draw_cell(grid[i],
                         SelectSeq(addressed, LAMBDA d : d.target = i - 1), 1)]

\* a content loop that forgets the glyph index: every glyph goes into the
\* first cell of the line
RECURSIVE write_content_at_line_start(_, _, _, _, _, _)
write_content_at_line_start(grid, content, i, line_start_x, line_start_y, style) ==
    IF i >= Len(content) THEN grid
    ELSE LET pos == <<U16(line_start_x), line_start_y>>
             next == IF buffer_at(grid, pos) = None THEN grid
                     ELSE [grid EXCEPT ![position_to_index(pos) + 1] =
                             [c |-> content[i + 1], style |-> content_style(style)]]
         IN write_content_at_line_start(next, content, i + 1, line_start_x,
                                        line_start_y, style)

\* the `write content` loop: glyph i into the cell (i + line_start_x, line_start_y)
RECURSIVE write_content(_, _, _, _, _, _)
write_content(grid, content, i, line_start_x, line_start_y, style) ==
    IF i >= Len(content) THEN grid
    ELSE LET pos == <<U16(i + line_start_x), line_start_y>>
             next == IF buffer_at(grid, pos) = None THEN grid
                     ELSE [grid EXCEPT ![position_to_index(pos) + 1] =
                             [c |-> content[i + 1], style |-> content_style(style)]]
         IN write_content(next, content, i + 1, line_start_x, line_start_y, style)

\* a layout that centres the box on the anchor and never clamps it
layout_unclamped(content, style) ==
    LET content_width == width(content)
        content_height == IF content_width = 0 THEN 0 ELSE 1
        total_width == content_width + extra_width(style)
        total_height == content_height + extra_height(style)
        alignment == IF style.alignment = None THEN {"CENTER"} ELSE style.alignment[1]
        print_pos == apply(alignment, size)
        end_x == print_pos[1] + ((total_width + 1) \div 2)
        start_x == saturating_sub(end_x, total_width)
        end_y == print_pos[2] + ((total_height + 1) \div 2)
        start_y == saturating_sub(end_y, total_height)
        line_start_x == start_x + left_width(style)
        line_start_y == start_y + ((top_width(style) + 1) \div 2)
        canvas_start_x == line_start_x
        canvas_start_y == line_start_y * 2
        canvas_end_x == canvas_start_x + content_width
        canvas_end_y == canvas_start_y + content_height * 2
    IN [total_width |-> total_width, total_height |-> total_height,
        start_x |-> start_x, start_y |-> start_y,
        line_start_x |-> line_start_x, line_start_y |-> line_start_y,
        box_start_x |-> saturating_sub(canvas_start_x, left_width(style)),
        box_start_y |-> saturating_sub(canvas_start_y, top_width(style)),
        box_end_x |-> canvas_end_x + right_width(style),
        box_end_y |-> canvas_end_y + bottom_width(style)]

\* where print_styled_content puts the box and the line of text
layout(content, style) ==
    LET content_width == width(content)
        content_height == IF content_width = 0 THEN 0 ELSE 1
        total_width == content_width + extra_width(style)
        total_height == content_height + extra_height(style)
        alignment == IF style.alignment = None THEN {"CENTER"} ELSE style.alignment[1]
        print_pos == apply(alignment, size)
        end_x == Min(print_pos[1] + ((total_width + 1) \div 2), size[1])
        start_x == saturating_sub(end_x, total_width)
        end_y == Min(print_pos[2] + ((total_height + 1) \div 2), size[2])
        start_y == saturating_sub(end_y, total_height)
        line_start_x == start_x + left_width(style)
        line_start_y == start_y + ((top_width(style) + 1) \div 2)
        canvas_start_x == line_start_x
        canvas_start_y == line_start_y * 2
        canvas_end_x == canvas_start_x + content_width
        canvas_end_y == canvas_start_y + content_height * 2
    IN [total_width |-> total_width, total_height |-> total_height,
        start_x |-> start_x, start_y |-> start_y,
        line_start_x |-> line_start_x, line_start_y |-> line_start_y,
        box_start_x |-> saturating_sub(canvas_start_x, left_width(style)),
        box_start_y |-> saturating_sub(canvas_start_y, top_width(style)),
        box_end_x |-> canvas_end_x + right_width(style),
        box_end_y |-> canvas_end_y + bottom_width(style)]

\* a print that paints the borders first and the fill over them
print_fill_over_borders(grid, content, style) ==
    LET l == layout(content, style)
        pixels == box_pixels(l.box_start_x, l.box_end_x, l.box_start_y, l.box_end_y)
        fill == IF style.background_color = None THEN <<>>
                ELSE [k \in 1..Len(pixels) |->
                        [pos |-> pixels[k], color |-> style.background_color]]
        borders == all_border_draws(style, pixels, 1, l.box_start_x, l.box_end_x,
                                    l.box_start_y, l.box_end_y)
    IN write_content(apply_draws(apply_draws(grid, borders, 1), fill, 1),
                     content, 0, l.line_start_x, l.line_start_y, style)

\* SimpleCanvas::print_styled_content: the write grid after the call
print_styled_content(grid, content, style) ==
    LET l == layout(content, style)
        pixels == box_pixels(l.box_start_x, l.box_end_x, l.box_start_y, l.box_end_y)
        fill == IF style.background_color = None THEN <<>>
                ELSE [k \in 1..Len(pixels) |->
                        [pos |-> pixels[k], color |-> style.background_color]]
        borders == all_border_draws(style, pixels, 1, l.box_start_x, l.box_end_x,
                                    l.box_start_y, l.box_end_y)
    IN write_content(apply_draws(apply_draws(grid, fill, 1), borders, 1),
                     content, 0, l.line_start_x, l.line_start_y, style)

(***************************************************************************)
(* Renderer: terminal output of one render().                              *)
(***************************************************************************)
SetColorCmd(name, color) ==
    [cmd |-> name, color |-> IF color # None THEN color ELSE <<"Reset">>]

\* set_terminal_styling that does not queue the colours again after the reset
set_terminal_styling_without_colors(style, new) ==
    (IF style.background_color # new.background_color
     THEN <<SetColorCmd("SetBackgroundColor", new.background_color)>> ELSE <<>>)
    \o
    (IF style.foreground_color # new.foreground_color
     THEN <<SetColorCmd("SetForegroundColor", new.foreground_color)>> ELSE <<>>)
    \o
    (IF style.attributes # new.attributes
     THEN <<[cmd |-> "SetAttribute", attribute |-> "Reset"],
            [cmd |-> "SetAttributes", attributes |-> new.attributes]>>
     ELSE <<>>)

\* Renderer::set_terminal_styling: the commands it queues
set_terminal_styling(style, new) ==
    (IF style.background_color # new.background_color
     THEN <<SetColorCmd("SetBackgroundColor", new.background_color)>> ELSE <<>>)
    \o
    (IF style.foreground_color # new.foreground_color
     THEN <<SetColorCmd("SetForegroundColor", new.foreground_color)>> ELSE <<>>)
    \o
    (IF style.attributes # new.attributes
     THEN <<[cmd |-> "SetAttribute", attribute |-> "Reset"]>>
          \o (IF new.foreground_color # None
              THEN <<SetColorCmd("SetForegroundColor", new.foreground_color)>>
              ELSE <<>>)
          \o (IF new.background_color # None
              THEN <<SetColorCmd("SetBackgroundColor", new.background_color)>>
              ELSE <<>>)
          \o <<[cmd |-> "SetAttributes", attributes |-> new.attributes]>>
     ELSE <<>>)

\* a loop that prints the glyph before it sets the style
RECURSIVE render_cells_glyph_first(_, _, _)
render_cells_glyph_first(d, k, style) ==
    IF k > Len(d) THEN <<>>
    ELSE <<[cmd |-> "MoveTo", x |-> d[k].pos[1], y |-> d[k].pos[2]]>>
         \o <<[cmd |-> "Print", c |-> d[k].cell.c]>>
         \o (IF style # d[k].cell.style
             THEN set_terminal_styling(style, d[k].cell.style) ELSE <<>>)
         \o render_cells_glyph_first(d, k + 1, d[k].cell.style)

\* the loop of Renderer::render over the diff, from entry k on
RECURSIVE render_cells(_, _, _)
render_cells(d, k, style) ==
    IF k > Len(d) THEN <<>>
    ELSE <<[cmd |-> "MoveTo", x |-> d[k].pos[1], y |-> d[k].pos[2]]>>
         \o (IF style # d[k].cell.style
             THEN set_terminal_styling(style, d[k].cell.style) ELSE <<>>)
         \o <<[cmd |-> "Print", c |-> d[k].cell.c]>>
         \o render_cells(d, k + 1, d[k].cell.style)

\* everything Renderer::render queues before the flush
render_commands ==
    <<[cmd |-> "ResetColor"]>> \o render_cells(diff(redraw), 1, ContentStyle_default)

Flush == [cmd |-> "Flush"]

(***************************************************************************)
(* The terminal: what the commands of a render do to its screen. The       *)
(* screen holds the cells printed on; every other cell of it is blank.     *)
(***************************************************************************)
ScreenBlank ==
    [c |-> SPACE, foreground_color |-> None, background_color |-> None,
     attributes |-> NoAttributes]

\* the cell of the screen at a position
ScreenAt(cells, pos) == IF pos \in DOMAIN cells THEN cells[pos] ELSE ScreenBlank

\* a terminal with these cells, its cursor at home and no colour or attribute
Terminal(cells) ==
    [cells |-> cells, cursor |-> <<0, 0>>, foreground_color |-> None,
     background_color |-> None, attributes |-> NoAttributes]

\* one command: MoveTo places the cursor; ResetColor and SetAttribute(Reset)
\* write the same code, which clears both colours and every attribute;
\* Color::Reset stands for no colour; Print writes the glyph at the cursor in
\* the current colours and attributes and advances the cursor
terminal_command(t, command) ==
    CASE command.cmd = "MoveTo" -> [t EXCEPT !.cursor = <<command.x, command.y>>]
      [] command.cmd \in {"ResetColor", "SetAttribute"} ->
            [t EXCEPT !.foreground_color = None, !.background_color = None,
                      !.attributes = NoAttributes]
      [] command.cmd = "SetForegroundColor" ->
            [t EXCEPT !.foreground_color =
                IF command.color = <<"Reset">> THEN None ELSE command.color]
      [] command.cmd = "SetBackgroundColor" ->
            [t EXCEPT !.background_color =
                IF command.color = <<"Reset">> THEN None ELSE command.color]
      [] command.cmd = "SetAttributes" ->
            [t EXCEPT !.attributes = @ \cup command.attributes]
      [] command.cmd = "Print" ->
            [t EXCEPT !.cells =
                        [p \in DOMAIN t.cells \cup {t.cursor} |->
                            IF p = t.cursor
                            THEN [c |-> command.c,
                                  foreground_color |-> t.foreground_color,
                                  background_color |-> t.background_color,
                                  attributes |-> t.attributes]
                            ELSE t.cells[p]],
                      !.cursor = <<t.cursor[1] + 1, t.cursor[2]>>]
      [] OTHER -> t

\* the terminal after the commands from the k-th on
RECURSIVE terminal_commands(_, _, _)
terminal_commands(t, commands, k) ==
    IF k > Len(commands) THEN t
    ELSE terminal_commands(terminal_command(t, commands[k]), commands, k + 1)

\* the screen after the commands written to stdout reached the terminal
terminal_write(cells, commands) == terminal_commands(Terminal(cells), commands, 1).cells

\* the screen after the terminal changed its size: what lies within stays
terminal_resize(cells, sz) ==
    [p \in {q \in DOMAIN cells : q[1] < sz[1] /\ q[2] < sz[2]} |-> cells[p]]

(***************************************************************************)
(* Terminal mode: Renderer::init and Renderer::shutdown.                   *)
(***************************************************************************)
TermCooked == [raw |-> FALSE, alt |-> FALSE, cursor_hidden |-> FALSE]

\* where Renderer::new can stop: terminal::size, enable_raw_mode, the two
\* commands of execute! and its flush each return an io::Result
NewOutcomes == {"size_fails", "raw_fails", "hide_fails", "enter_fails",
                "flush_fails", "ok"}

\* Renderer::init: the terminal after it ran up to its outcome
init(t, outcome) ==
    CASE outcome = "raw_fails" -> t
      [] outcome = "hide_fails" -> [t EXCEPT !.raw = TRUE]
      [] outcome = "enter_fails" -> [t EXCEPT !.raw = TRUE, !.cursor_hidden = TRUE]
      [] OTHER -> [t EXCEPT !.raw = TRUE, !.cursor_hidden = TRUE, !.alt = TRUE]

\* where Renderer::shutdown can stop
ShutdownOutcomes == {"show_fails", "leave_fails", "flush_fails",
                     "disable_fails", "ok"}

\* Renderer::shutdown: the steps it performed before returning
shutdown_steps(outcome) ==
    CASE outcome = "show_fails" -> {}
      [] outcome = "leave_fails" -> {"show_cursor"}
      [] outcome \in {"flush_fails", "disable_fails"} ->
            {"show_cursor", "leave_alternate_screen"}
      [] OTHER -> {"show_cursor", "leave_alternate_screen", "disable_raw_mode"}

\* Renderer::shutdown: the terminal after it ran up to its outcome
shutdown(t, outcome) ==
    [raw |-> t.raw /\ "disable_raw_mode" \notin shutdown_steps(outcome),
     alt |-> t.alt /\ "leave_alternate_screen" \notin shutdown_steps(outcome),
     cursor_hidden |-> t.cursor_hidden /\ "show_cursor" \notin shutdown_steps(outcome)]

(***************************************************************************)
(* Inputs.                                                                 *)
(***************************************************************************)
\* terminal sizes whose cell count does not fit 16 bits
\* (21846 * 3 = 65538 = 2^16 + 2)
WrapSizes == {<<21846, 3>>}

\* sizes the terminal reports (terminal::size, Event::Resize)
Sizes == ((1..MaxW) \X (1..MaxH)) \cup WrapSizes

\* pixel coordinates passed to the drawing calls, as i32 values: the pixels
\* of the largest small canvas, and points off it on each side, beyond the
\* u16 range, and inside a canvas of a size in WrapSizes
PixelPositions ==
    ((0..(MaxW - 1)) \X (0..(2 * MaxH - 1)))
    \cup {<<-1, 0>>, <<0, -1>>, <<MaxW, 0>>, <<0, 2 * MaxH>>,
          <<U16Range, 0>>, <<0, U16Range + 1>>, <<21844, 4>>}

\* lines start on the canvas, left of it, or beyond the u16 range, and span
\* at most MaxLine pixels in each axis
LineStarts == {<<0, 0>>, <<-1, 0>>, <<U16Range, 0>>}

LineDeltas == (-MaxLine..MaxLine) \X (-MaxLine..MaxLine)

\* what the callbacks print: an empty text, plain text, a full-block glyph in
\* a full style, a text in a box with a border, padding and an alignment, and
\* a bold letter without colours at the left edge
PrintInputs ==
    {[content |-> <<>>, style |-> PrintStyle_default],
     [content |-> <<"H", "i">>, style |-> PrintStyle_default],
     [content |-> <<FULL_BLOCK>>,
      style |-> [PrintStyle_default EXCEPT !.foreground_color = <<"Red">>,
                                           !.background_color = <<"Blue">>,
                                           !.attributes = {"Bold"}]],
     [content |-> <<"H">>,
      style |-> [PrintStyle_default EXCEPT !.background_color = <<"Blue">>,
                                           !.border_style.left_border = <<"Red">>,
                                           !.padding.top_padding = 1,
                                           !.alignment = Some({"TOP", "LEFT"})]],
     [content |-> <<"B">>,
      style |-> [PrintStyle_default EXCEPT !.attributes = {"Bold"},
                                           !.alignment = Some({"LEFT"})]]}

Keys == {"q", "Esc", "Ctrl-c", "c", "other"}

QuitKeys == {"q", "Esc", "Ctrl-c"}

\* a pixel coordinate lies on the canvas: x in [0, W), y in [0, 2H)
OnCanvas(pos) ==
    /\ 0 <= pos[1] /\ pos[1] < size[1]
    /\ 0 <= pos[2] /\ pos[2] < 2 * size[2]

\* the other pixel of the cell a pixel belongs to
OtherPixel(pos) == <<pos[1], IF pos[2] % 2 = 0 THEN pos[2] + 1 ELSE pos[2] - 1>>

\* indices at which the two grids differ
Differing == {i \in 0..(Len(hidden) - 1) : get(hidden, i) # get(display, i)}

(***************************************************************************)
(* Calls on the canvas: the drawing calls the App callbacks make on State  *)
(* (src/lib.rs 51-93), which forward to SimpleCanvas.                      *)
(***************************************************************************)
\* a canvas exists and its owner may call it: the callbacks of App::run,
\* or any caller of a constructed SimpleCanvas
InCallback ==
    \/ pc = "canvas" /\ ops < MaxOps
    \/ pc \in {"init", "on_key", "update"} /\ ops < MaxRunOps

\* a call that leaves the write grid as grid
Draws(grid) ==
    /\ InCallback
    /\ hidden' = grid
    /\ ops' = ops + 1
    /\ swaps' = IF grid # hidden THEN 0 ELSE swaps
    /\ out' = <<>>
    /\ altered' = altered \cup {i \in 1..Len(grid) : grid[i] # hidden[i]}
    /\ UNCHANGED <<pc, result, quit, display, size, default_cell, redraw, term,
                   hook, key, overflow_checks, frames, term_size, resized,
                   restored, screen>>

PointWithColor ==
    \E pos \in PixelPositions, color \in Colors :
        /\ Draws(point_with_color(hidden, pos, color))
        /\ last' = [op |-> "point_with_color", pos |-> pos, color |-> color,
                    other_before |-> at(OtherPixel(pos)),
                    changed |-> hidden' # hidden]

Erase ==
    \E pos \in PixelPositions :
        /\ Draws(erase(hidden, pos))
        /\ last' = [op |-> "erase", pos |-> pos, color |-> None,
                    other_before |-> at(OtherPixel(pos)),
                    changed |-> hidden' # hidden]

LineWithColor ==
    \E start \in LineStarts, d \in LineDeltas, color \in Colors :
        LET end == <<start[1] + d[1], start[2] + d[2]>>
            points == Bresenham(start, end)
        IN /\ Draws(draw_points(hidden, points, 1, color))
           /\ last' = [op |-> "line_with_color", color |-> color,
                       off_canvas |-> \A k \in 1..Len(points) : ~OnCanvas(points[k]),
                       changed |-> hidden' # hidden]

PrintText ==
    \E p \in PrintInputs :
        /\ Draws(print_styled_content(hidden, p.content, p.style))
        /\ last' = [op |-> "print", content |-> p.content,
                    changed |-> hidden' # hidden]

\* Renderer::set_background_color
SetBackgroundColor ==
    /\ InCallback
    /\ \E color \in Colors \cup {None} :
         /\ default_cell' = Some(with_background_color(color))
         /\ last' = [op |-> "set_background_color", color |-> color]
    /\ redraw' = TRUE
    /\ ops' = ops + 1
    /\ swaps' = 0
    /\ out' = <<>>
    /\ UNCHANGED <<pc, result, quit, display, hidden, size, term, hook, key,
                   overflow_checks, frames, term_size, resized, restored, screen, altered>>

\* Renderer::resize, with DoubleBuffer::resize wrapping on overflow
Resizes(sz) ==
    /\ ~(overflow_checks /\ size # sz /\ Overflows(sz[1] * sz[2]))
    /\ display' = resize(sz).display
    /\ hidden' = resize(sz).hidden
    /\ size' = resize(sz).size
    /\ redraw' = TRUE
    /\ term_size' = sz
    /\ resized' = TRUE
    /\ swaps' = IF display' # display \/ hidden' # hidden THEN 0 ELSE swaps
    /\ out' = <<>>
    /\ last' = [op |-> "resize", to |-> sz, same |-> (size = sz),
                changed |-> (display' # display \/ hidden' # hidden)]
    /\ screen' = terminal_resize(screen, sz)
    /\ altered' = IF size = sz THEN altered ELSE {}
    /\ UNCHANGED <<result, quit, default_cell, term, hook, key, overflow_checks,
                   frames, restored>>

\* DoubleBuffer::resize to a size whose cell count overflows, in a build with
\* overflow checks: both grids are cleared, then element_product panics
ResizeOverflows(sz) ==
    /\ overflow_checks
    /\ size # sz
    /\ Overflows(sz[1] * sz[2])
    /\ display' = <<>>
    /\ hidden' = <<>>
    /\ term_size' = sz
    /\ swaps' = 0
    /\ out' = <<>>
    /\ last' = [op |-> "resize", to |-> sz, same |-> FALSE, changed |-> TRUE,
                panic |-> TRUE]
    /\ screen' = terminal_resize(screen, sz)
    /\ altered' = {}
    /\ UNCHANGED <<result, quit, size, default_cell, redraw, term, hook, key,
                   overflow_checks, frames, resized, restored>>

\* Renderer::render returning Ok
Renders ==
    /\ frames < MaxFrames
    /\ out' = render_commands \o <<Flush>>
    /\ screen' = terminal_write(screen, out')
    /\ redraw' = FALSE
    /\ altered' = {}
    /\ display' = swap.display
    /\ hidden' = swap.hidden
    /\ frames' = frames + 1
    /\ swaps' = IF swaps < 2 THEN swaps + 1 ELSE swaps
    /\ resized' = FALSE
    /\ last' = [op |-> "render", ok |-> TRUE, first |-> (frames = 0),
                after_resize |-> resized, differing |-> Differing,
                altered |-> altered]
    /\ UNCHANGED <<quit, size, default_cell, term, hook, key, overflow_checks,
                   ops, term_size, restored>>

\* a render that swaps and clears the redraw flag before it writes, so that
\* a failed write loses the frame
RenderErrs_after_swap ==
    /\ frames < MaxFrames
    /\ LET commands == render_commands IN
       \E k \in 0..Len(commands) :
         /\ out' = SubSeq(commands, 1, k)
         /\ screen' \in {screen, terminal_write(screen, out')}
         /\ last' = [op |-> "render", ok |-> FALSE, written |-> k]
    /\ redraw' = FALSE
    /\ altered' = {}
    /\ display' = swap.display
    /\ hidden' = swap.hidden
    /\ UNCHANGED <<quit, size, default_cell, term, hook, key, overflow_checks,
                   frames, ops, term_size, swaps, resized, restored>>

\* Renderer::render returning the error of its k+1-th queued write, or of
\* the flush when every write was queued
RenderErrs ==
    /\ frames < MaxFrames
    /\ LET commands == render_commands IN
       \E k \in 0..Len(commands) :
         /\ out' = SubSeq(commands, 1, k)
         /\ screen' \in {screen, terminal_write(screen, out')}
         /\ last' = [op |-> "render", ok |-> FALSE, written |-> k]
    /\ UNCHANGED <<quit, display, hidden, size, default_cell, redraw, term, hook,
                   key, overflow_checks, frames, ops, term_size, swaps, resized,
                   restored, altered>>

(***************************************************************************)
(* The canvas on its own: any sequence of calls on a constructed           *)
(* SimpleCanvas, as the callbacks and the frame loop can issue them.       *)
(***************************************************************************)
Init ==
    /\ pc = "canvas"
    /\ result = "none"
    /\ quit = FALSE
    /\ overflow_checks \in BOOLEAN
    /\ \E sz \in Sizes :
         /\ ~(overflow_checks /\ Overflows(sz[1] * sz[2]))
         /\ display = from_size(sz).display
         /\ hidden = from_size(sz).hidden
         /\ size = from_size(sz).size
         /\ default_cell = from_size(sz).default_cell
         /\ term_size = sz
    /\ redraw = FALSE
    /\ term = init(TermCooked, "ok")
    /\ hook = TRUE
    /\ out = <<>>
    /\ key = "none"
    /\ frames = 0
    /\ ops = 0
    /\ swaps = 0
    /\ resized = FALSE
    /\ restored = {}
    /\ screen = <<>>
    /\ altered = {}
    /\ last = [op |-> "new", outcome |-> "ok"]

Resize ==
    /\ pc = "canvas"
    /\ ops < MaxOps
    /\ \E sz \in Sizes : Resizes(sz)
    /\ ops' = ops + 1
    /\ pc' = pc

ResizePanics ==
    /\ pc = "canvas"
    /\ ops < MaxOps
    /\ \E sz \in Sizes : ResizeOverflows(sz)
    /\ ops' = ops + 1
    /\ pc' = "panicked"

Render ==
    /\ pc = "canvas"
    /\ Renders
    /\ UNCHANGED <<pc, result>>

RenderFails ==
    /\ pc = "canvas"
    /\ RenderErrs
    /\ pc' = "failed"
    /\ result' = "IoError"

Next ==
    \/ PointWithColor \/ Erase \/ LineWithColor \/ PrintText \/ SetBackgroundColor
    \/ Resize \/ ResizePanics \/ Render \/ RenderFails

Spec == Init /\ [][Next]_vars

(***************************************************************************)
(* App::run (src/lib.rs 116-165): construction, the frame loop, and the    *)
(* ways out of it.                                                         *)
(***************************************************************************)
InitRun ==
    /\ pc = "start"
    /\ result = "none"
    /\ quit = FALSE
    /\ display = <<>>
    /\ hidden = <<>>
    /\ size = <<0, 0>>
    /\ default_cell = None
    /\ redraw = FALSE
    /\ term = TermCooked
    /\ hook = FALSE
    /\ out = <<>>
    /\ key = "none"
    /\ overflow_checks \in BOOLEAN
    /\ frames = 0
    /\ ops = 0
    /\ term_size = <<0, 0>>
    /\ swaps = 0
    /\ resized = FALSE
    /\ restored = {}
    /\ screen = <<>>
    /\ altered = {}
    /\ last = [op |-> "start"]

\* State::new()?: terminal::size()? returns the error
NewSizeFails ==
    /\ pc = "start"
    /\ pc' = "exited"
    /\ result' = "IoError"
    /\ last' = [op |-> "new", outcome |-> "size_fails"]
    /\ UNCHANGED <<quit, display, hidden, size, default_cell, redraw, term, hook,
                   out, key, overflow_checks, frames, ops, term_size, swaps,
                   resized, restored, screen, altered>>

\* from_values overflows in a build with overflow checks: the panic unwinds
\* out of run() before the terminal was touched
NewPanics ==
    /\ pc = "start"
    /\ overflow_checks
    /\ \E sz \in Sizes :
         /\ Overflows(sz[1] * sz[2])
         /\ term_size' = sz
    /\ last' = [op |-> "new", outcome |-> "panic"]
    /\ pc' = "exited"
    /\ result' = "panic"
    /\ UNCHANGED <<quit, display, hidden, size, default_cell, redraw, term, hook,
                   out, key, overflow_checks, frames, ops, swaps, resized,
                   restored, screen, altered>>

\* the buffer a successful from_values leaves
Constructs(sz) ==
    /\ ~(overflow_checks /\ Overflows(sz[1] * sz[2]))
    /\ display' = from_size(sz).display
    /\ hidden' = from_size(sz).hidden
    /\ size' = from_size(sz).size
    /\ default_cell' = from_size(sz).default_cell
    /\ redraw' = FALSE
    /\ term_size' = sz

\* the buffer is built, then Renderer::init fails: `new` is dropped on the
\* way out of Renderer::new
NewInitFails ==
    /\ pc = "start"
    /\ \E sz \in Sizes, outcome \in NewOutcomes \ {"size_fails", "ok"} :
         /\ Constructs(sz)
         /\ term' = init(term, outcome)
         /\ last' = [op |-> "new", outcome |-> outcome]
    /\ pc' = "dropping"
    /\ result' = "IoError"
    /\ UNCHANGED <<quit, hook, out, key, overflow_checks, frames, ops, swaps,
                   resized, restored, screen, altered>>

\* Renderer::new succeeds; run() goes on to App::init
NewOk ==
    /\ pc = "start"
    /\ \E sz \in Sizes : Constructs(sz)
    /\ term' = init(term, "ok")
    /\ hook' = TRUE
    /\ pc' = "init"
    /\ last' = [op |-> "new", outcome |-> "ok"]
    /\ UNCHANGED <<result, quit, out, key, overflow_checks, frames, ops, swaps,
                   resized, restored, screen, altered>>

\* State::exit, called by a callback
Exit ==
    /\ pc \in {"init", "on_key", "update"}
    /\ ~quit
    /\ quit' = TRUE
    /\ out' = <<>>
    /\ last' = [op |-> "exit"]
    /\ UNCHANGED <<pc, result, display, hidden, size, default_cell, redraw, term,
                   hook, key, overflow_checks, frames, ops, term_size, swaps,
                   resized, restored, screen, altered>>

\* self.init(&mut state) returns; `while !state.quit` is tested next
InitReturn ==
    /\ pc = "init"
    /\ \E ok \in BOOLEAN :
         /\ pc' = IF ok /\ ~quit THEN "poll" ELSE "dropping"
         /\ result' = IF ~ok THEN "InitError" ELSE IF quit THEN "Ok" ELSE result
         /\ last' = [op |-> "init_return", ok |-> ok]
    /\ out' = <<>>
    /\ UNCHANGED <<quit, display, hidden, size, default_cell, redraw, term, hook,
                   key, overflow_checks, frames, ops, term_size, swaps, resized,
                   restored, screen, altered>>

Polling == pc = "poll" /\ frames < MaxFrames

\* event::poll(..)? or event::read()? returns the error
PollFails ==
    /\ Polling
    /\ pc' = "dropping"
    /\ result' = "IoError"
    /\ out' = <<>>
    /\ last' = [op |-> "poll", ok |-> FALSE]
    /\ UNCHANGED <<quit, display, hidden, size, default_cell, redraw, term, hook,
                   key, overflow_checks, frames, ops, term_size, swaps, resized,
                   restored, screen, altered>>

\* no event within the interval: the timer has run out, 'poll_loop breaks
PollTimeout ==
    /\ Polling
    /\ pc' = "update"
    /\ out' = <<>>
    /\ last' = [op |-> "poll", ok |-> TRUE]
    /\ UNCHANGED <<result, quit, display, hidden, size, default_cell, redraw,
                   term, hook, key, overflow_checks, frames, ops, term_size,
                   swaps, resized, restored, screen, altered>>

\* Event::Key: on_key_event runs first
KeyEvent ==
    /\ Polling
    /\ \E k \in Keys : key' = k
    /\ pc' = "on_key"
    /\ out' = <<>>
    /\ last' = [op |-> "key_event"]
    /\ UNCHANGED <<result, quit, display, hidden, size, default_cell, redraw,
                   term, hook, overflow_checks, frames, ops, term_size, swaps,
                   resized, restored, screen, altered>>

\* on_key_event returns: the match on key_event.code, then the timer test;
\* a key outside the match arms continues the poll loop
OnKeyReturn ==
    /\ pc = "on_key"
    /\ quit' = (quit \/ key \in QuitKeys)
    /\ \E elapsed \in BOOLEAN :
         pc' = IF key \in QuitKeys \cup {"c"} /\ elapsed THEN "update" ELSE "poll"
    /\ key' = "none"
    /\ out' = <<>>
    /\ last' = [op |-> "on_key_return", key |-> key]
    /\ UNCHANGED <<result, display, hidden, size, default_cell, redraw, term,
                   hook, overflow_checks, frames, ops, term_size, swaps, resized,
                   restored, screen, altered>>

\* a frame loop that reads the resize event and does not apply it
ResizeEvent_unapplied ==
    /\ Polling
    /\ \E sz \in Sizes :
         /\ term_size' = sz
         /\ last' = [op |-> "resize", to |-> sz, same |-> (size = sz),
                     changed |-> FALSE]
    /\ \E elapsed \in BOOLEAN : pc' = IF elapsed THEN "update" ELSE "poll"
    /\ out' = <<>>
    /\ UNCHANGED <<result, quit, display, hidden, size, default_cell, redraw,
                   term, hook, key, overflow_checks, frames, ops, swaps, resized,
                   restored, screen, altered>>

\* Event::Resize: state.canvas.resize(..), then the timer test
ResizeEvent ==
    /\ Polling
    /\ \E sz \in Sizes : Resizes(sz)
    /\ \E elapsed \in BOOLEAN : pc' = IF elapsed THEN "update" ELSE "poll"
    /\ UNCHANGED ops

\* Event::Resize whose resize panics
ResizeEventPanics ==
    /\ Polling
    /\ \E sz \in Sizes : ResizeOverflows(sz)
    /\ pc' = "panicking"
    /\ UNCHANGED ops

\* Event::FocusGained / Event::FocusLost => todo!()
FocusEvent ==
    /\ Polling
    /\ pc' = "panicking"
    /\ out' = <<>>
    /\ last' = [op |-> "focus_event"]
    /\ UNCHANGED <<result, quit, display, hidden, size, default_cell, redraw,
                   term, hook, key, overflow_checks, frames, ops, term_size,
                   swaps, resized, restored, screen, altered>>

\* any other event (mouse, paste) => continue
OtherEvent ==
    /\ Polling
    /\ last.op # "other_event"
    /\ out' = <<>>
    /\ last' = [op |-> "other_event"]
    /\ UNCHANGED <<pc, result, quit, display, hidden, size, default_cell, redraw,
                   term, hook, key, overflow_checks, frames, ops, term_size,
                   swaps, resized, restored, screen, altered>>

\* self.update(&mut state) returns
UpdateReturn ==
    /\ pc = "update"
    /\ \E ok \in BOOLEAN :
         /\ pc' = IF ok THEN "render" ELSE "dropping"
         /\ result' = IF ok THEN result ELSE "UpdateError"
         /\ last' = [op |-> "update_return", ok |-> ok]
    /\ out' = <<>>
    /\ UNCHANGED <<quit, display, hidden, size, default_cell, redraw, term, hook,
                   key, overflow_checks, frames, ops, term_size, swaps, resized,
                   restored, screen, altered>>

\* a frame loop that does not test the quit flag after the render
FrameRender_without_quit_test ==
    /\ pc = "render"
    /\ Renders
    /\ pc' = "poll"
    /\ result' = result

\* state.canvas.render()? succeeds; `while !state.quit` is tested next
FrameRender ==
    /\ pc = "render"
    /\ Renders
    /\ pc' = IF quit THEN "dropping" ELSE "poll"
    /\ result' = IF quit THEN "Ok" ELSE result

\* state.canvas.render()? returns the error
FrameRenderFails ==
    /\ pc = "render"
    /\ RenderErrs
    /\ pc' = "dropping"
    /\ result' = "IoError"

\* the hook installed by Renderer::init: `let _ = Self::shutdown()`, then
\* the original hook; unwinding then drops the State
PanicHook ==
    /\ pc = "panicking"
    /\ hook
    /\ \E outcome \in ShutdownOutcomes :
         /\ term' = shutdown(term, outcome)
         /\ restored' = restored \cup shutdown_steps(outcome)
         /\ last' = [op |-> "panic_hook", outcome |-> outcome]
    /\ pc' = "dropping"
    /\ result' = "panic"
    /\ out' = <<>>
    /\ UNCHANGED <<quit, display, hidden, size, default_cell, redraw, hook, key,
                   overflow_checks, frames, ops, term_size, swaps, resized,
                   screen, altered>>

\* Drop for Renderer: `let _ = Self::shutdown()`
Drop ==
    /\ pc = "dropping"
    /\ \E outcome \in ShutdownOutcomes :
         /\ term' = shutdown(term, outcome)
         /\ restored' = restored \cup shutdown_steps(outcome)
         /\ last' = [op |-> "drop", outcome |-> outcome]
    /\ pc' = "exited"
    /\ out' = <<>>
    /\ UNCHANGED <<result, quit, display, hidden, size, default_cell, redraw,
                   hook, key, overflow_checks, frames, ops, term_size, swaps,
                   resized, screen, altered>>

NextRun ==
    \/ NewSizeFails \/ NewPanics \/ NewInitFails \/ NewOk
    \/ PointWithColor \/ Erase \/ LineWithColor \/ PrintText
    \/ SetBackgroundColor \/ Exit
    \/ InitReturn
    \/ PollFails \/ PollTimeout \/ KeyEvent \/ OnKeyReturn
    \/ ResizeEvent \/ ResizeEventPanics \/ FocusEvent \/ OtherEvent
    \/ UpdateReturn \/ FrameRender \/ FrameRenderFails
    \/ PanicHook \/ Drop

SpecRun == InitRun /\ [][NextRun]_vars

(***************************************************************************)
(* print on a blank canvas: one call of SimpleCanvas::print with a text,   *)
(* a style and an alignment, on canvases of several sizes.                 *)
(***************************************************************************)
MaxPad == 2

\* canvas sizes in cells
PrintSizes == {<<10, 11>>, <<10, 20>>, <<4, 3>>, <<2, 1>>}

PrintTexts == {<<>>, <<"H">>, <<"H", "i">>, <<"wide_glyph", "i">>}

\* Option<CanvasAlignment>: unset, single flags and combinations of flags
PrintAlignments ==
    {None, Some({"CENTER"}), Some({"TOP"}), Some({"BOTTOM"}), Some({"LEFT"}),
     Some({"RIGHT"}), Some({"TOP", "LEFT"}), Some({"BOTTOM", "RIGHT"}),
     Some({"TOP", "BOTTOM", "LEFT", "RIGHT"}), Some({"CENTER", "BOTTOM", "LEFT"})}

\* BorderStyle values: no edge, single edges, pairs, all four
PrintBorders ==
    {BorderStyle_default,
     [BorderStyle_default EXCEPT !.left_border = <<"Red">>],
     [BorderStyle_default EXCEPT !.top_border = <<"Red">>],
     [BorderStyle_default EXCEPT !.right_border = <<"Red">>,
                                 !.bottom_border = <<"Green">>],
     [top_border |-> <<"Red">>, bottom_border |-> <<"Green">>,
      right_border |-> <<"Red">>, left_border |-> <<"Green">>]}

\* Padding values: none, one edge, and all four edges
PrintPaddings ==
    {Padding_default,
     [Padding_default EXCEPT !.top_padding = MaxPad],
     [Padding_default EXCEPT !.left_padding = MaxPad - 1, !.bottom_padding = 1],
     [top_padding |-> 1, bottom_padding |-> 1, right_padding |-> 1,
      left_padding |-> 1]}

\* the colours and attributes of the content: all unset, or all set
PrintColorings ==
    {PrintStyle_default,
     [PrintStyle_default EXCEPT !.foreground_color = <<"Magenta">>,
                                !.background_color = <<"Blue">>,
                                !.underline_color = <<"Yellow">>,
                                !.attributes = {"Bold"}]}

InitPrint ==
    /\ pc = "print"
    /\ result = "none"
    /\ quit = FALSE
    /\ overflow_checks \in BOOLEAN
    /\ \E sz \in PrintSizes :
         /\ display = from_size(sz).display
         /\ hidden = from_size(sz).hidden
         /\ size = from_size(sz).size
         /\ default_cell = from_size(sz).default_cell
         /\ term_size = sz
    /\ redraw = FALSE
    /\ term = init(TermCooked, "ok")
    /\ hook = TRUE
    /\ out = <<>>
    /\ key = "none"
    /\ frames = 0
    /\ ops = 0
    /\ swaps = 0
    /\ resized = FALSE
    /\ restored = {}
    /\ screen = <<>>
    /\ altered = {}
    /\ last = [op |-> "new", outcome |-> "ok"]

\* SimpleCanvas::print
PrintStyled ==
    /\ pc = "print"
    /\ \E content \in PrintTexts, coloring \in PrintColorings,
          border \in PrintBorders, padding \in PrintPaddings,
          alignment \in PrintAlignments :
         LET style == [coloring EXCEPT !.border_style = border,
                                       !.padding = padding,
                                       !.alignment = alignment]
         IN /\ hidden' = print_styled_content(hidden, content, style)
            /\ last' = [op |-> "print", content |-> content, style |-> style,
                        anchor |-> apply(IF alignment = None THEN {"CENTER"}
                                         ELSE alignment[1], size),
                        layout |-> layout(content, style)]
    /\ pc' = "printed"
    /\ ops' = ops + 1
    /\ out' = <<>>
    /\ UNCHANGED <<result, quit, display, size, default_cell, redraw, term, hook,
                   key, overflow_checks, frames, term_size, swaps, resized,
                   restored, screen, altered>>

NextPrint == PrintStyled

SpecPrint == InitPrint /\ [][NextPrint]_vars

(***************************************************************************)
(* Anti-aliased drawing: draw_aa_line and draw_aa_circle. The f32          *)
(* coordinates of the source are counted in quarters of a pixel, the step  *)
(* of the finest sample grid, and a coverage is a fraction num / den; on   *)
(* these values the f32 arithmetic of the source is exact.                 *)
(***************************************************************************)
\* pow(2usize, pow_of_2) of get_sub_pixel_points
divisions(pow_of_2) == 2 ^ pow_of_2

\* 1.0 and 0.5, in quarters
Pixel == divisions(2)

Half == Pixel \div 2

Abs(n) == IF n < 0 THEN -n ELSE n

\* f32::floor, f32::ceil and f32::round (halves away from zero), in pixels
floor(v) == v \div Pixel

ceil(v) == -((-v) \div Pixel)

round(v) == IF v >= 0 THEN (v + Half) \div Pixel ELSE -((Half - v) \div Pixel)

\* an `as i32` cast of an f32: the fraction is dropped
cast(v) == IF v >= 0 THEN v \div Pixel ELSE -((-v) \div Pixel)

\* an `as u16` cast of a whole f32: out-of-range values saturate
saturating_u16(n) == IF n < 0 THEN 0 ELSE Min(n, U16Range - 1)

\* Color::Rgb { r, g, b } of an Rgb<u8>
Rgb(c) == <<"Rgb", c[1], c[2], c[3]>>

\* Renderer::get_background_color
get_background_color ==
    IF default_cell = None THEN None ELSE default_cell[1].style.background_color

\* the chain of background_rgb_at_or_default after color_at: the default
\* background when the pixel has no colour, a colour that is not Color::Rgb
\* dropped, black when nothing is left
background_rgb(current) ==
    LET color == IF current # None THEN current ELSE get_background_color IN
    IF color # None /\ color[1] = "Rgb" THEN <<color[2], color[3], color[4]>>
    ELSE <<0, 0, 0>>

background_rgb_at_or_default(grid, pos) == background_rgb(color_at(grid, pos))

\* a lerp from r to l
lerp_swapped(l, r, num, den) ==
    LET scaled == r * den + (l - r) * num IN
    IF scaled < 0 THEN 0 ELSE Min(scaled \div den, 255)

\* lerp(l, r, v) as u8 for v = num / den: l + (r - l) * v, the fraction
\* dropped, saturating
lerp(l, r, num, den) ==
    LET scaled == l * den + (r - l) * num IN
    IF scaled < 0 THEN 0 ELSE Min(scaled \div den, 255)

\* the Color::Rgb built from the three lerps
blend(bg, color, num, den) ==
    Rgb(<<lerp(bg[1], color[1], num, den), lerp(bg[2], color[2], num, den),
          lerp(bg[3], color[3], num, den)>>)

\* line_drawing::XiaolinWu::<f32, i32>::new
XiaolinWu_new(start, end) ==
    LET steep == Abs(end[2] - start[2]) > Abs(end[1] - start[1])
        s == IF steep THEN <<start[2], start[1]>> ELSE start
        e == IF steep THEN <<end[2], end[1]>> ELSE end
        a == IF s[1] > e[1] THEN e ELSE s
        b == IF s[1] > e[1] THEN s ELSE e
        dx == b[1] - a[1]
    IN [steep |-> steep,
        gradient |-> IF dx = 0 THEN Pixel ELSE ((b[2] - a[2]) * Pixel) \div dx,
        x |-> round(a[1]), y |-> a[2], end_x |-> round(b[1])]

\* the gradient of the line is a whole number of quarters
ExactGradient(start, end) ==
    LET dx == IF Abs(end[2] - start[2]) > Abs(end[1] - start[1])
              THEN end[2] - start[2] ELSE end[1] - start[1]
        dy == IF Abs(end[2] - start[2]) > Abs(end[1] - start[1])
              THEN end[1] - start[1] ELSE end[2] - start[2]
    IN IF dx = 0 THEN TRUE ELSE (dy * Pixel) % Abs(dx) = 0

\* XiaolinWu::next at column x with ordinate y: the upper pixel with coverage
\* 1 - fpart, then, if fpart > 0, the lower pixel with coverage fpart
XiaolinWu_step(steep, x, y) ==
    LET fpart == y - floor(y) * Pixel
        upper == [point |-> IF steep THEN <<cast(y), x>> ELSE <<x, cast(y)>>,
                  num |-> Pixel - fpart]
        lower == [point |-> IF steep THEN <<cast(y) + 1, x>> ELSE <<x, cast(y) + 1>>,
                  num |-> fpart]
    IN IF fpart > 0 THEN <<upper, lower>> ELSE <<upper>>

RECURSIVE XiaolinWu_from(_, _, _)
XiaolinWu_from(line, x, y) ==
    IF x > line.end_x THEN <<>>
    ELSE XiaolinWu_step(line.steep, x, y)
         \o XiaolinWu_from(line, x + 1, y + line.gradient)

\* the ((x, y), magnitude) pairs the iterator yields, magnitude = num / Pixel
XiaolinWu(start, end) ==
    LET line == XiaolinWu_new(start, end) IN XiaolinWu_from(line, line.x, line.y)

\* one pass of the loop of draw_aa_line, or the painting branches of
\* draw_aa_circle, on the cell that holds the pixel
RECURSIVE write_cell(_, _, _)
write_cell(cell, writes, k) ==
    IF k > Len(writes) THEN cell
    ELSE LET w == writes[k]
             top == w.pos[2] % 2 = 0
             current == IF top THEN at_top(cell) ELSE at_bottom(cell)
             color == IF w.blend
                      THEN blend(background_rgb(current), w.color, w.num, w.den)
                      ELSE Rgb(w.color)
         IN write_cell(IF top THEN set_top(cell, color) ELSE set_bottom(cell, color),
                       writes, k + 1)

\* the write grid after the pixel writes of one anti-aliased shape, in order
apply_writes(grid, writes) ==
    LET addressed == [j \in 1..Len(writes) |->
                        [pos |-> writes[j].pos, blend |-> writes[j].blend,
                         num |-> writes[j].num, den |-> writes[j].den,
                         color |-> writes[j].color,
                         target |-> draw_target(grid, writes[j].pos)]]
        touched == {addressed[j].target : j \in 1..Len(writes)}
    IN [i \in 1..Len(grid) |->
          IF (i - 1) \notin touched THEN grid[i]
          ELSE write_cell(grid[i],
                          SelectSeq(addressed, LAMBDA w : w.target = i - 1), 1)]

\* the pixels draw_aa_line writes: `as u16` of each i32 coordinate, blended
\* by the magnitude
line_writes(start, end, color) ==
    LET points == XiaolinWu(start, end) IN
    [k \in 1..Len(points) |->
       [pos |-> as_u16vec2(points[k].point), blend |-> TRUE,
        num |-> points[k].num, den |-> Pixel, color |-> color]]

\* color.unwrap_or(white) of draw_aa_line and draw_aa_circle
unwrap_or_white(color) == IF color = None THEN <<255, 255, 255>> ELSE color[1]

\* SimpleCanvas::draw_aa_line: the write grid after the call
draw_aa_line(grid, start, end, color) ==
    apply_writes(grid, line_writes(start, end, unwrap_or_white(color)))

\* Option<f32>::unwrap_or_default
stroke_or_default(stroke) == IF stroke = None THEN 0 ELSE stroke[1]

\* Circle::inner_stroke
inner_stroke(circle) ==
    IF circle.inner_stroke = None /\ circle.outer_stroke = None THEN Half
    ELSE stroke_or_default(circle.inner_stroke)

\* Circle::outer_stroke
outer_stroke(circle) ==
    IF circle.inner_stroke = None /\ circle.outer_stroke = None THEN Half
    ELSE stroke_or_default(circle.outer_stroke)

outer_stroke_sq(circle) ==
    (circle.radius + outer_stroke(circle)) * (circle.radius + outer_stroke(circle))

inner_stroke_sq(circle) ==
    (circle.radius - inner_stroke(circle)) * (circle.radius - inner_stroke(circle))

\* Vec2::distance_squared
distance_squared(p, q) ==
    (p[1] - q[1]) * (p[1] - q[1]) + (p[2] - q[2]) * (p[2] - q[2])

\* the closure get_sub_pixel_points of draw_aa_circle
get_sub_pixel_points(canvas_pos, pow_of_2) ==
    LET step == Pixel \div divisions(pow_of_2) IN
    {<<canvas_pos[1] * Pixel + j * step - Half,
       canvas_pos[2] * Pixel + i * step - Half>> :
         j \in 0..divisions(pow_of_2), i \in 0..divisions(pow_of_2)}

\* dist_sq <= outer_stroke_sq && dist_sq >= inner_stroke_sq
in_band(p, pos, circle) ==
    /\ distance_squared(p, pos) <= outer_stroke_sq(circle)
    /\ distance_squared(p, pos) >= inner_stroke_sq(circle)

\* the branches of draw_aa_circle at one pixel: None when nothing is drawn
circle_write(canvas_pos, pos, circle) ==
    LET pixel_vertices == get_sub_pixel_points(canvas_pos, 1)
        sub_pixel_vertices == get_sub_pixel_points(canvas_pos, 2)
        color == unwrap_or_white(circle.stroke_color)
    IN IF \A p \in pixel_vertices :
             distance_squared(p, pos) > outer_stroke_sq(circle) THEN None
       ELSE IF \A p \in pixel_vertices :
             distance_squared(p, pos) < inner_stroke_sq(circle) THEN None
       ELSE IF \A p \in pixel_vertices : in_band(p, pos, circle)
       THEN Some([pos |-> canvas_pos, blend |-> FALSE, num |-> 1, den |-> 1,
                  color |-> color])
       ELSE Some([pos |-> canvas_pos, blend |-> TRUE,
                  num |-> Cardinality({p \in sub_pixel_vertices :
                                         in_band(p, pos, circle)}),
                  den |-> Cardinality(sub_pixel_vertices), color |-> color])

\* the pixels draw_aa_circle writes, row by row over the bounding box
circle_writes(pos, circle) ==
    LET span == circle.radius + outer_stroke(circle)
        top_left == <<saturating_u16(floor(pos[1] - span + Half)),
                      saturating_u16(floor(pos[2] - span + Half))>>
        bottom_right == <<saturating_u16(ceil(pos[1] + span + Half)),
                          saturating_u16(ceil(pos[2] + span + Half))>>
        w == bottom_right[1] - top_left[1]
        h == bottom_right[2] - top_left[2]
        box == IF w <= 0 \/ h <= 0 THEN <<>>
               ELSE [k \in 1..(w * h) |->
                       circle_write(<<top_left[1] + ((k - 1) % w),
                                      top_left[2] + ((k - 1) \div w)>>, pos, circle)]
        drawn == SelectSeq(box, LAMBDA c : c # None)
    IN [k \in 1..Len(drawn) |-> drawn[k][1]]

\* SimpleCanvas::draw_aa_circle: the write grid after the call
draw_aa_circle(grid, pos, circle) ==
    IF circle.radius <= 0 THEN grid ELSE apply_writes(grid, circle_writes(pos, circle))

(***************************************************************************)
(* Anti-aliased drawing on a constructed canvas: a default background and  *)
(* a point may be set first, then one line or circle is drawn.             *)
(***************************************************************************)
AaSizes == {<<11, 1>>, <<4, 2>>}

\* Color values of set_background_color and point_with_color
AaColors == {<<"Rgb", 0, 0, 0>>, <<"Rgb", 100, 50, 0>>, White}

\* Vec2 values, in quarters: (0,0) (0,0.5) (0.5,0) (-1,0) (1,1)
AaStarts == {<<0, 0>>, <<0, 2>>, <<2, 0>>, <<-4, 0>>, <<4, 4>>}

\* end - start, in quarters
AaDeltas == {<<0, 0>>, <<40, 0>>, <<8, 0>>, <<0, 8>>, <<8, 4>>, <<-8, -4>>,
             <<4, 8>>, <<4, 4>>}

\* centres (1,1) (1.5,1.5)
AaCentres == {<<4, 4>>, <<6, 6>>}

\* radii 0, -1, 0.5, 1
AaRadii == {0, -4, 2, 4}

\* stroke widths: unset, 0, 0.5, 2
AaStrokes == {None, Some(0), Some(2), Some(8)}

InitAA ==
    /\ pc = "aa"
    /\ result = "none"
    /\ quit = FALSE
    /\ overflow_checks = FALSE
    /\ \E sz \in AaSizes :
         /\ display = from_size(sz).display
         /\ hidden = from_size(sz).hidden
         /\ size = from_size(sz).size
         /\ default_cell = from_size(sz).default_cell
         /\ term_size = sz
    /\ redraw = FALSE
    /\ term = init(TermCooked, "ok")
    /\ hook = TRUE
    /\ out = <<>>
    /\ key = "none"
    /\ frames = 0
    /\ ops = 0
    /\ swaps = 0
    /\ resized = FALSE
    /\ restored = {}
    /\ screen = <<>>
    /\ altered = {}
    /\ last = [op |-> "new", outcome |-> "ok"]

\* State::set_background_color before the shape
AaBackground ==
    /\ pc = "aa"
    /\ \E color \in AaColors :
         /\ default_cell' = Some(with_background_color(color))
         /\ last' = [op |-> "set_background_color", color |-> color]
    /\ redraw' = TRUE
    /\ pc' = "aa_background"
    /\ ops' = ops + 1
    /\ out' = <<>>
    /\ UNCHANGED <<result, quit, display, hidden, size, term, hook, key,
                   overflow_checks, frames, term_size, swaps, resized, restored, screen, altered>>

\* State::point_with_color before the shape
AaPoint ==
    /\ pc \in {"aa", "aa_background"}
    /\ \E pos \in {<<1, 0>>}, color \in AaColors :
         /\ hidden' = point_with_color(hidden, pos, color)
         /\ last' = [op |-> "point_with_color", pos |-> pos, color |-> color]
    /\ pc' = "aa_point"
    /\ ops' = ops + 1
    /\ out' = <<>>
    /\ UNCHANGED <<result, quit, display, size, default_cell, redraw, term, hook,
                   key, overflow_checks, frames, term_size, swaps, resized,
                   restored, screen, altered>>

\* a drawing call that puts `grid` in place of the write grid
AaDraws(grid) ==
    /\ pc \in {"aa", "aa_background", "aa_point"}
    /\ hidden' = grid
    /\ pc' = "aa_drawn"
    /\ ops' = ops + 1
    /\ out' = <<>>
    /\ UNCHANGED <<result, quit, display, size, default_cell, redraw, term, hook,
                   key, overflow_checks, frames, term_size, swaps, resized,
                   restored, screen, altered>>

\* State::aa_line (no colour) and State::aa_line_with_color
AaLine ==
    \E start \in AaStarts, d \in AaDeltas, color \in {None, Some(<<200, 100, 200>>)} :
        LET end == <<start[1] + d[1], start[2] + d[2]>> IN
        /\ ExactGradient(start, end)
        /\ AaDraws(draw_aa_line(hidden, start, end, color))
        /\ last' = [op |-> "aa_line", start |-> start, end |-> end,
                    color |-> unwrap_or_white(color), before |-> hidden,
                    writes |-> line_writes(start, end, unwrap_or_white(color))]

\* State::aa_circle
AaCircle ==
    \E pos \in AaCentres, radius \in AaRadii, inner \in AaStrokes,
       outer \in AaStrokes, color \in {None, Some(<<200, 100, 200>>)} :
        LET circle == [radius |-> radius, inner_stroke |-> inner,
                       outer_stroke |-> outer, stroke_color |-> color]
        IN /\ AaDraws(draw_aa_circle(hidden, pos, circle))
           /\ last' = [op |-> "aa_circle", pos |-> pos, circle |-> circle,
                       color |-> unwrap_or_white(color), before |-> hidden,
                       writes |-> IF radius <= 0 THEN <<>>
                                  ELSE circle_writes(pos, circle)]

\* State::line_with_color with start and end on pixel centres
AaSolidLine ==
    \E start \in {s \in AaStarts : s[1] % Pixel = 0 /\ s[2] % Pixel = 0},
       d \in {e \in AaDeltas : e[1] % Pixel = 0 /\ e[2] % Pixel = 0},
       color \in Colors :
        LET from == <<start[1] \div Pixel, start[2] \div Pixel>>
            to == <<from[1] + (d[1] \div Pixel), from[2] + (d[2] \div Pixel)>>
        IN /\ AaDraws(draw_line(hidden, from, to, color))
           /\ last' = [op |-> "line_with_color", start |-> from, end |-> to,
                       color |-> color, before |-> hidden]

NextAA == AaBackground \/ AaPoint \/ AaLine \/ AaCircle \/ AaSolidLine

SpecAA == InitAA /\ [][NextAA]_vars

(***************************************************************************)
(* The coordinate mapping of a constructed DoubleBuffer: one call of       *)
(* position_to_index or of index_to_position.                              *)
(***************************************************************************)
\* sizes of the buffer: the one of the tests, a small one, one of WrapSizes
IndexSizes == {<<10, 20>>, <<2, 1>>} \cup WrapSizes

\* cell positions: those of the 10 x 20 grid and the last cells of a grid
\* of 21846 x 3
IndexPositions == ((0..9) \X (0..19)) \cup {<<21844, 2>>, <<21845, 2>>}

\* indices: those of the 10 x 20 grid and the last ones of a grid of 21846 x 3
IndexIndices == (0..199) \cup {65536, 65537}

InitIndex ==
    /\ pc = "index"
    /\ result = "none"
    /\ quit = FALSE
    /\ overflow_checks \in BOOLEAN
    /\ \E sz \in IndexSizes :
         /\ ~(overflow_checks /\ Overflows(sz[1] * sz[2]))
         /\ display = from_size(sz).display
         /\ hidden = from_size(sz).hidden
         /\ size = from_size(sz).size
         /\ default_cell = from_size(sz).default_cell
         /\ term_size = sz
    /\ redraw = FALSE
    /\ term = init(TermCooked, "ok")
    /\ hook = TRUE
    /\ out = <<>>
    /\ key = "none"
    /\ frames = 0
    /\ ops = 0
    /\ swaps = 0
    /\ resized = FALSE
    /\ restored = {}
    /\ screen = <<>>
    /\ altered = {}
    /\ last = [op |-> "new", outcome |-> "ok"]

\* DoubleBuffer::position_to_index on a position that passes bounds(), and
\* index_to_position on its result
PositionToIndex ==
    /\ pc = "index"
    /\ \E pos \in IndexPositions :
         /\ bounds(pos)
         /\ last' = [op |-> "position_to_index", pos |-> pos,
                     index |-> position_to_index(pos),
                     back |-> index_to_position(position_to_index(pos))]
    /\ pc' = "indexed"
    /\ UNCHANGED <<result, quit, display, hidden, size, default_cell, redraw,
                   term, hook, out, key, overflow_checks, frames, ops, term_size,
                   swaps, resized, restored, screen, altered>>

\* DoubleBuffer::index_to_position on an index below W*H, and
\* position_to_index on its result
IndexToPosition ==
    /\ pc = "index"
    /\ \E idx \in IndexIndices :
         /\ idx < size[1] * size[2]
         /\ last' = [op |-> "index_to_position", idx |-> idx,
                     pos |-> index_to_position(idx),
                     back |-> position_to_index(index_to_position(idx))]
    /\ pc' = "indexed"
    /\ UNCHANGED <<result, quit, display, hidden, size, default_cell, redraw,
                   term, hook, out, key, overflow_checks, frames, ops, term_size,
                   swaps, resized, restored, screen, altered>>

NextIndex == PositionToIndex \/ IndexToPosition

SpecIndex == InitIndex /\ [][NextIndex]_vars

(***************************************************************************)
(* Stylize: the chained style-mutation calls of style/mod.rs, applied to a *)
(* bare PrintStyle and to a StyledPrint that started from the same style.  *)
(***************************************************************************)
MaxChain == 3

\* AsRef<PrintStyle>: a StyledPrint gives its style, a PrintStyle itself
as_ref(styled) == IF "content" \in DOMAIN styled THEN styled.style ELSE styled

\* the value after `*styled.as_mut() = style`
as_mut(styled, style) ==
    IF "content" \in DOMAIN styled THEN [styled EXCEPT !.style = style] ELSE style

\* PrintStyle::apply
PrintStyle_apply(style, val) == [content |-> val, style |-> style]

\* Stylize::stylize of PrintStyle and of StyledPrint
stylize(self) == self

with(self, color) ==
    LET styled == stylize(self)
    IN  as_mut(styled, [as_ref(styled) EXCEPT !.foreground_color = Some(color)])

on(self, color) ==
    LET styled == stylize(self)
    IN  as_mut(styled, [as_ref(styled) EXCEPT !.background_color = Some(color)])

underline(self, color) ==
    LET styled == stylize(self)
    IN  as_mut(styled, [as_ref(styled) EXCEPT !.underline_color = Some(color)])

\* Attributes::set adds the attribute's bit
attribute_replaces(self, attr) ==
    LET styled == stylize(self)
    IN  as_mut(styled, [as_ref(styled) EXCEPT !.attributes = {attr}])

attribute(self, attr) ==
    LET styled == stylize(self)
    IN  as_mut(styled, [as_ref(styled) EXCEPT !.attributes = @ \cup {attr}])

align(self, alignment) ==
    LET styled == stylize(self)
    IN  as_mut(styled, [as_ref(styled) EXCEPT !.alignment = Some(alignment)])

\* colours, attributes and alignments of the calls
StyleColors == {<<"Blue">>, <<"Red">>, <<"Green">>}

StyleAttributes == {"Bold", "NoItalic", "Underlined"}

StyleAlignments == {{"TOP"}, {"BOTTOM", "LEFT"}}

\* the styles a chain starts from: the default and one with padding, a
\* border and an underline colour
StyleStarts ==
    {PrintStyle_default,
     [PrintStyle_default EXCEPT !.padding.left_padding = 1,
                                !.border_style.top_border = Some(<<"Red">>),
                                !.underline_color = Some(<<"Blue">>)]}

InitStyle ==
    /\ pc = "style"
    /\ result = "none"
    /\ quit = FALSE
    /\ overflow_checks = FALSE
    /\ display = from_size(<<1, 1>>).display
    /\ hidden = from_size(<<1, 1>>).hidden
    /\ size = from_size(<<1, 1>>).size
    /\ default_cell = from_size(<<1, 1>>).default_cell
    /\ term_size = <<1, 1>>
    /\ redraw = FALSE
    /\ term = init(TermCooked, "ok")
    /\ hook = TRUE
    /\ out = <<>>
    /\ key = "none"
    /\ frames = 0
    /\ ops = 0
    /\ swaps = 0
    /\ resized = FALSE
    /\ restored = {}
    /\ screen = <<>>
    /\ altered = {}
    /\ \E start \in StyleStarts :
         last = [op |-> "apply", bare |-> start,
                 styled |-> PrintStyle_apply(start, <<"t", "e", "s", "t">>)]

\* one more call of the chain, made on the bare style and on the styled text
Chained(op, arg, bare, styled) ==
    /\ pc = "style"
    /\ ops < MaxChain
    /\ ops' = ops + 1
    /\ last' = [op |-> op, arg |-> arg,
                before |-> last.bare, bare |-> bare,
                before_styled |-> last.styled, styled |-> styled]
    /\ UNCHANGED <<pc, result, quit, display, hidden, size, default_cell, redraw,
                   term, hook, out, key, overflow_checks, frames, term_size,
                   swaps, resized, restored, screen, altered>>

StyleWith ==
    \E c \in StyleColors : Chained("with", c, with(last.bare, c), with(last.styled, c))

StyleOn ==
    \E c \in StyleColors : Chained("on", c, on(last.bare, c), on(last.styled, c))

StyleUnderline ==
    \E c \in StyleColors :
        Chained("underline", c, underline(last.bare, c), underline(last.styled, c))

StyleAttribute ==
    \E a \in StyleAttributes :
        Chained("attribute", a, attribute(last.bare, a), attribute(last.styled, a))

StyleAlign ==
    \E a \in StyleAlignments :
        Chained("align", a, align(last.bare, a), align(last.styled, a))

NextStyle == StyleWith \/ StyleOn \/ StyleUnderline \/ StyleAttribute \/ StyleAlign

SpecStyle == InitStyle /\ [][NextStyle]_vars

(***************************************************************************)
(* One cell written as two sub-pixels: BlockCellMut::set_top and           *)
(* set_bottom applied to the only cell of a 1 x 1 write grid that holds    *)
(* any glyph and any colours.                                              *)
(***************************************************************************)
MaxCellOps == 2

\* glyphs of the cell: the four of the sub-pixel scheme and a letter
CellGlyphs == {SPACE, UPPER_HALF, LOWER_HALF, FULL_BLOCK, "x"}

\* Option<Color> of a slot and of a call
CellColors == {None} \cup Colors

InitCell ==
    /\ pc = "cell"
    /\ result = "none"
    /\ quit = FALSE
    /\ overflow_checks = FALSE
    /\ display = from_size(<<1, 1>>).display
    /\ \E c \in CellGlyphs, fg \in CellColors, bg \in CellColors :
         hidden = <<[c |-> c,
                     style |-> [ContentStyle_default EXCEPT
                                    !.foreground_color = fg,
                                    !.background_color = bg]]>>
    /\ size = from_size(<<1, 1>>).size
    /\ default_cell = from_size(<<1, 1>>).default_cell
    /\ term_size = <<1, 1>>
    /\ redraw = FALSE
    /\ term = init(TermCooked, "ok")
    /\ hook = TRUE
    /\ out = <<>>
    /\ key = "none"
    /\ frames = 0
    /\ ops = 0
    /\ swaps = 0
    /\ resized = FALSE
    /\ restored = {}
    /\ screen = <<>>
    /\ altered = {}
    /\ last = [op |-> "wrap", color |-> None]

\* a call of BlockCellMut on the cell; `last` keeps the call before it too
CellCall(op, color, cell) ==
    /\ pc = "cell"
    /\ ops < MaxCellOps
    /\ ops' = ops + 1
    /\ hidden' = <<cell>>
    /\ last' = [op |-> op, color |-> color, before |-> hidden[1],
                prev_op |-> last.op, prev_color |-> last.color,
                first |-> IF last.op = "wrap" THEN hidden[1] ELSE last.before]
    /\ UNCHANGED <<pc, result, quit, display, size, default_cell, redraw,
                   term, hook, out, key, overflow_checks, frames, term_size,
                   swaps, resized, restored, screen, altered>>

CellSetTop ==
    \E color \in CellColors : CellCall("set_top", color, set_top(hidden[1], color))

CellSetBottom ==
    \E color \in CellColors :
        CellCall("set_bottom", color, set_bottom(hidden[1], color))

NextCell == CellSetTop \/ CellSetBottom

SpecCell == InitCell /\ [][NextCell]_vars

(***************************************************************************)
(* App::run with progress: a callback that was entered returns, a render   *)
(* that was started ends, a dropped Renderer is dropped to the end, these   *)
(* being sequential code of one thread; and the poll loop is left through   *)
(* its timer when time advances and events stop arriving, which is what     *)
(* strong fairness of PollTimeout says.                                     *)
(***************************************************************************)
FairRun ==
    /\ WF_vars(InitReturn)
    /\ WF_vars(OnKeyReturn)
    /\ SF_vars(PollTimeout)
    /\ WF_vars(UpdateReturn)
    /\ WF_vars(FrameRender \/ FrameRenderFails)
    /\ WF_vars(PanicHook)
    /\ WF_vars(Drop)

SpecRunFair == SpecRun /\ FairRun

(***************************************************************************)
(* Properties of the canvas and the double buffer.                         *)
(***************************************************************************)
\* the cell positions a render moved the cursor to, and its glyph prints
EmittedPositions(o) ==
    {<<o[k].x, o[k].y>> : k \in {j \in 1..Len(o) : o[j].cmd = "MoveTo"}}

NumPrints(o) == Cardinality({k \in 1..Len(o) : o[k].cmd = "Print"})

\* the position of the i-th cell of a grid W cells wide
CellOf(i) == <<i % size[1], i \div size[1]>>

\* the cells addressed by the pixel coordinates the model draws at
ProbeCells ==
    {<<p[1], p[2] \div 2>> : p \in {q \in PixelPositions : q[1] >= 0 /\ q[2] >= 0}}

AllDefault(grid) ==
    \A i \in 1..Len(grid) : grid[i] = unwrap_or_default(default_cell)

\* C1: after point_with_color(p, c) on an in-bounds pixel p, at(p) returns c;
\* after erase(p), at(p) returns none.
C1_ReadBackOriginal ==
    /\ last.op = "point_with_color" /\ OnCanvas(last.pos) => at(last.pos) = last.color
    /\ last.op = "erase" /\ OnCanvas(last.pos) => at(last.pos) = None

\* C2: drawing on or erasing one pixel of a cell leaves the colour at()
\* returns for the other pixel of that cell unchanged.
C2_OtherPixelOriginal ==
    last.op \in {"point_with_color", "erase"} /\ OnCanvas(last.pos)
        => at(OtherPixel(last.pos)) = last.other_before

\* C3: the first render after construction and any render that follows a
\* resize emit every cell of the canvas (W x H glyph prints); every other
\* render emits exactly the cells whose write-grid value differed from the
\* last-rendered grid.
C3_RenderEmitsOriginal ==
    last.op = "render" /\ last.ok =>
        IF last.first \/ last.after_resize
        THEN /\ NumPrints(out) = size[1] * size[2]
             /\ Cardinality(EmittedPositions(out)) = size[1] * size[2]
        ELSE /\ EmittedPositions(out) = {CellOf(i) : i \in last.differing}
             /\ NumPrints(out) = Cardinality(last.differing)

\* C4: a drawing call addressed to a pixel coordinate outside
\* [0,W) x [0,2H) changes no cell of the write grid and raises no fault,
\* and at() returns none for such a coordinate.
C4_OffCanvasOriginal ==
    /\ last.op \in {"point_with_color", "erase"} /\ ~OnCanvas(last.pos)
          => ~last.changed /\ pc = "canvas"
    /\ last.op = "line_with_color" /\ last.off_canvas
          => ~last.changed /\ pc = "canvas"
    /\ pc = "canvas" => \A p \in PixelPositions : ~OnCanvas(p) => at(p) = None

\* C5: after two consecutive swaps with no write in between diff(false) is
\* empty, and diff(true) always returns exactly size.x * size.y entries, one
\* per cell position.
C5_DiffOriginal ==
    pc = "canvas" =>
        /\ swaps = 2 => diff(FALSE) = <<>>
        /\ Len(diff(TRUE)) = size[1] * size[2]
        /\ Cardinality({diff(TRUE)[k].pos : k \in 1..Len(diff(TRUE))})
              = size[1] * size[2]

\* C6: both grids hold exactly W*H cells, and every position that passes
\* the bounds check maps to an existing cell of its own.
C6_GridInvariantOriginal ==
    pc = "canvas" =>
        /\ Len(hidden) = size[1] * size[2]
        /\ Len(display) = size[1] * size[2]
        /\ \A p \in ProbeCells : bounds(p) => buffer_at(hidden, p) # None
        /\ \A p, q \in ProbeCells :
              bounds(p) /\ bounds(q) /\ p # q
                  => position_to_index(p) # position_to_index(q)

RestorationSteps == {"show_cursor", "leave_alternate_screen", "disable_raw_mode"}

\* C8: once construction has put the terminal into raw mode, the alternate
\* screen or the hidden cursor, the program has, when run() has returned or
\* unwound, performed the three restoration steps and left the terminal in
\* cooked mode, on the main screen, with the cursor shown.
C8_RestoredOriginal ==
    pc = "exited" =>
        /\ term = TermCooked
        /\ hook => restored = RestorationSteps

\* C9: a render whose queued write or flush fails returns the I/O error,
\* leaves both grids and the redraw flag as they were, leaves the output
\* written so far in place, and run() returns that error: no frame is
\* started after it.
C9_RenderFailure ==
    [][/\ pc = "render" /\ last'.op = "render" /\ ~last'.ok
            => /\ hidden' = hidden /\ display' = display /\ redraw' = redraw
               /\ frames' = frames
               /\ out' = SubSeq(render_commands, 1, last'.written)
               /\ result' = "IoError"
               /\ pc' = "dropping"
       /\ result = "IoError"
            => /\ result' = result /\ frames' = frames
               /\ hidden' = hidden /\ display' = display
               /\ pc' \in {"dropping", "exited"}]_vars

\* the render of a frame with changed cells failed after part of its output
\* was written, with a full redraw pending, and run() is returning the error
C9_Witness ==
    /\ pc = "dropping" /\ result = "IoError"
    /\ last.op = "render" /\ ~last.ok /\ last.written > 1
    /\ Len(out) = last.written
    /\ redraw /\ hidden # display

Printed(alignment) ==
    /\ pc = "printed"
    /\ last.style.alignment = Some(alignment)

\* C11: on a canvas of size (10,11) the anchor is (4,0) for TOP, (4,10) for
\* BOTTOM, (0,5) for LEFT, (9,5) for RIGHT, (0,0) for TOP|LEFT, (9,10) for
\* BOTTOM|RIGHT, (4,5) for all four edge flags and for CENTER alone; on
\* every canvas the anchor of every flag combination is a cell of the canvas.
C11_AnchorsOriginal ==
    /\ size = <<10, 11>> =>
         /\ Printed({"TOP"}) => last.anchor = <<4, 0>>
         /\ Printed({"BOTTOM"}) => last.anchor = <<4, 10>>
         /\ Printed({"LEFT"}) => last.anchor = <<0, 5>>
         /\ Printed({"RIGHT"}) => last.anchor = <<9, 5>>
         /\ Printed({"TOP", "LEFT"}) => last.anchor = <<0, 0>>
         /\ Printed({"BOTTOM", "RIGHT"}) => last.anchor = <<9, 10>>
         /\ Printed({"TOP", "BOTTOM", "LEFT", "RIGHT"}) => last.anchor = <<4, 5>>
         /\ Printed({"CENTER"}) => last.anchor = <<4, 5>>
    /\ pc = "printed" => last.anchor[1] < size[1] /\ last.anchor[2] < size[2]

\* the print returned and its box is not larger than the canvas
FittingPrint ==
    /\ pc = "printed"
    /\ last.layout.total_width <= size[1]
    /\ last.layout.total_height <= size[2]

\* the pixels print paints: the rectangle of its fill and border loops
BoxPixels ==
    {p \in (last.layout.box_start_x..(last.layout.box_end_x - 1))
           \X (last.layout.box_start_y..(last.layout.box_end_y - 1)) : TRUE}

\* the cells that hold the text
ContentCells ==
    {<<last.layout.line_start_x + i, last.layout.line_start_y>> :
        i \in 0..(Len(last.content) - 1)}

\* the cells of a grid that differ from the blank cell
ChangedCells(grid) ==
    {CellOf(i) : i \in {j \in 0..(Len(grid) - 1) : grid[j + 1] # Cell_default}}

ExpectedWidth ==
    width(last.content)
    + (IF last.style.border_style.left_border # None THEN 1 ELSE 0)
    + (IF last.style.border_style.right_border # None THEN 1 ELSE 0)
    + last.style.padding.left_padding + last.style.padding.right_padding

ExpectedHeight ==
    (IF width(last.content) = 0 THEN 0 ELSE 1)
    + (IF last.style.border_style.top_border # None THEN 1 ELSE 0)
    + (IF last.style.border_style.bottom_border # None THEN 1 ELSE 0)
    + last.style.padding.top_padding + last.style.padding.bottom_padding

\* C13: the box painted by a print with a background colour is
\* ExpectedWidth cells wide and ExpectedHeight cells high.
C13_BoxSizeOriginal ==
    FittingPrint /\ last.style.background_color # None /\ last.content # <<>> =>
        /\ last.layout.total_width = ExpectedWidth
        /\ last.layout.total_height = ExpectedHeight
        /\ Cardinality({c[1] : c \in ChangedCells(hidden)}) = ExpectedWidth
        /\ Cardinality({c[2] : c \in ChangedCells(hidden)}) = ExpectedHeight

\* a print without border and padding, centred (the default alignment), of
\* a text that fits the canvas
PlainCentredPrint ==
    /\ FittingPrint
    /\ last.style.border_style = BorderStyle_default
    /\ last.style.padding = Padding_default
    /\ last.style.alignment \in {None, Some({"CENTER"})}

\* the cells of the write grid that hold a glyph of the printed text
GlyphCells ==
    {c \in ChangedCells(hidden) :
        buffer_at(hidden, c)[1].c \in {last.content[i] : i \in 1..Len(last.content)}}

EdgeColors(p) ==
    LET l == last.layout
        b == last.style.border_style
    IN {c \in {b.left_border, b.right_border, b.top_border, b.bottom_border} :
          /\ c # None
          /\ \/ c = b.left_border /\ p[1] = l.box_start_x
             \/ c = b.right_border /\ p[1] = l.box_end_x - 1
             \/ c = b.top_border /\ p[2] = l.box_start_y
             \/ c = b.bottom_border /\ p[2] = l.box_end_y - 1}

AaDrawn(op) == pc = "aa_drawn" /\ last.op = op

\* the colour a pixel shows before a write: the colour read from the write
\* grid, else the default background colour, else black
BackgroundBefore(pos) ==
    LET current == color_at(last.before, pos) IN
    IF current # None THEN current
    ELSE IF get_background_color # None THEN get_background_color
    ELSE Rgb(<<0, 0, 0>>)

\* the blended writes of the last shape that land on the canvas
BlendedWrites ==
    {k \in 1..Len(last.writes) :
       last.writes[k].blend /\ OnCanvas(last.writes[k].pos)}

\* C16: every pixel blended by aa_line or by the boundary case of aa_circle
\* shows exactly the requested colour at coverage 1, exactly its background
\* at coverage 0 and, over an RGB background, bg + (fg - bg) * coverage per
\* channel with the fraction dropped, where the background is the colour read
\* from the canvas at that pixel, else the default background colour, else black.
C16_BlendOriginal ==
    (AaDrawn("aa_line") \/ AaDrawn("aa_circle")) =>
       \A k \in BlendedWrites :
          LET w == last.writes[k]
              bg == BackgroundBefore(w.pos)
          IN /\ w.num = w.den => at(w.pos) = Rgb(w.color)
             /\ w.num = 0 => at(w.pos) = bg
             /\ bg[1] = "Rgb" =>
                   at(w.pos) = Rgb(<<(bg[2] * w.den + (w.color[1] - bg[2]) * w.num) \div w.den,
                                     (bg[3] * w.den + (w.color[2] - bg[3]) * w.num) \div w.den,
                                     (bg[4] * w.den + (w.color[3] - bg[4]) * w.num) \div w.den>>)

\* the pixels of the canvas
CanvasPixels == {p \in (0..(size[1] - 1)) \X (0..(2 * size[2] - 1)) : OnCanvas(p)}

\* the inner and the outer radius of the band of the last circle
InnerRadius == last.circle.radius - inner_stroke(last.circle)

OuterRadius == last.circle.radius + outer_stroke(last.circle)

\* the 3 x 3 sample points of a pixel against the band of the last circle:
\* all at a distance in [InnerRadius, OuterRadius], all beyond OuterRadius,
\* all closer than InnerRadius
AllInBand(p) ==
    \A s \in get_sub_pixel_points(p, 1) :
       /\ distance_squared(s, last.pos) <= OuterRadius * OuterRadius
       /\ InnerRadius <= 0 \/ distance_squared(s, last.pos) >= InnerRadius * InnerRadius

AllBeyondOuter(p) ==
    \A s \in get_sub_pixel_points(p, 1) :
       distance_squared(s, last.pos) > OuterRadius * OuterRadius

AllInsideInner(p) ==
    \A s \in get_sub_pixel_points(p, 1) :
       InnerRadius > 0 /\ distance_squared(s, last.pos) < InnerRadius * InnerRadius

\* C17: after aa_circle with a positive radius, a pixel whose sample points
\* all lie in the band [radius - inner_stroke, radius + outer_stroke] shows
\* exactly the stroke colour, a pixel whose sample points all lie beyond the
\* outer radius or all inside the inner radius shows what it showed before,
\* and a pixel that shows any other colour has mixed sample points.
C17_BandOriginal ==
    (AaDrawn("aa_circle") /\ last.circle.radius > 0) =>
       \A p \in CanvasPixels :
          /\ AllInBand(p) => at(p) = Rgb(last.color)
          /\ (AllBeyondOuter(p) \/ AllInsideInner(p)) =>
                at(p) = color_at(last.before, p)
          /\ at(p) \notin {Rgb(last.color), color_at(last.before, p)} =>
                ~(AllInBand(p) \/ AllBeyondOuter(p) \/ AllInsideInner(p))

\* the last aa_line has a length and runs along one axis
AxisAligned ==
    /\ last.start # last.end
    /\ last.start[1] = last.end[1] \/ last.start[2] = last.end[2]

\* the last aa_line runs along a pixel row or a pixel column: horizontal at a
\* whole y, or vertical at a whole x
AlongPixels ==
    \/ last.start[2] = last.end[2] /\ last.start[1] # last.end[1]
         /\ last.start[2] % Pixel = 0
    \/ last.start[1] = last.end[1] /\ last.start[2] # last.end[2]
         /\ last.start[1] % Pixel = 0

\* every pixel the last aa_line wrote on the canvas shows the requested colour
WritesRequestedColor ==
    \A k \in 1..Len(last.writes) :
       OnCanvas(last.writes[k].pos) => at(last.writes[k].pos) = Rgb(last.color)

\* C18 as stated: every pixel written by an axis-aligned aa_line shows
\* exactly the requested colour.
C18_AxisAlignedOriginal ==
    (AaDrawn("aa_line") /\ AxisAligned) => WritesRequestedColor

\* C18: every pixel written by an aa_line that runs along a pixel row or a
\* pixel column (horizontal at a whole y, vertical at a whole x) shows exactly
\* the requested colour; the white line from (0,0) to (10,0) leaves each pixel
\* (x, 0), x in 0..10, of the canvas pure white.
C18_AlongPixels ==
    AaDrawn("aa_line") =>
       /\ AlongPixels => WritesRequestedColor
       /\ (last.start = <<0, 0>> /\ last.end = <<10 * Pixel, 0>>
             /\ last.color = <<255, 255, 255>>) =>
             \A x \in 0..10 :
                OnCanvas(<<x, 0>>) => at(<<x, 0>>) = Rgb(<<255, 255, 255>>)

\* the white line from (0,0) to (10,0) over a black default background, all
\* of its eleven pixels on the canvas
C18_Witness ==
    /\ AaDrawn("aa_line")
    /\ last.start = <<0, 0>> /\ last.end = <<10 * Pixel, 0>>
    /\ last.color = <<255, 255, 255>>
    /\ get_background_color = Rgb(<<0, 0, 0>>)
    /\ Len(last.writes) = 11
    /\ \A k \in 1..Len(last.writes) : OnCanvas(last.writes[k].pos)
    /\ \A x \in 0..10 : color_at(last.before, <<x, 0>>) # Rgb(<<255, 255, 255>>)

\* the last call drew a degenerate shape: a circle of radius zero or less, or
\* a solid or anti-aliased line whose start is its end
Degenerate ==
    \/ AaDrawn("aa_circle") /\ last.circle.radius <= 0
    \/ AaDrawn("aa_line") /\ last.start = last.end
    \/ AaDrawn("line_with_color") /\ last.start = last.end

\* C19: aa_circle with a radius of zero or less, and a solid or anti-aliased
\* line whose start equals its end, return without a fault and leave every
\* cell of the write grid as it was.
C19_DegenerateOriginal == Degenerate => (hidden = last.before /\ result = "none")

\* a stroke width of the descriptor, 0.5 when it is left unset
WidthOrHalf(stroke) == IF stroke = None THEN Half ELSE stroke[1]

\* C20: the band of a circle of positive radius takes 0.5 for every stroke width that
\* is left unset, whether or not the other one is set: it is
\* [radius - inner, radius + outer] with inner and outer the set width or 0.5.
C20_StrokeDefaultOriginal ==
    (AaDrawn("aa_circle") /\ last.circle.radius > 0) =>
       /\ InnerRadius = last.circle.radius - WidthOrHalf(last.circle.inner_stroke)
       /\ OuterRadius = last.circle.radius + WidthOrHalf(last.circle.outer_stroke)

(***************************************************************************)
(* Properties of the coordinate mapping.                                   *)
(***************************************************************************)
\* C21: on a grid of W x H cells, position_to_index maps a position that
\* passes the bounds check to W*y + x, an index below W*H that no other
\* in-bounds position maps to and that index_to_position maps back; and
\* index_to_position maps an index below W*H to an in-bounds position that
\* position_to_index maps back. For size (10,20), (5,7) and 75 correspond.
C21_IndexBijectionOriginal ==
    /\ (pc = "indexed" /\ last.op = "position_to_index") =>
          /\ last.index = size[1] * last.pos[2] + last.pos[1]
          /\ last.index < size[1] * size[2]
          /\ last.back = last.pos
          /\ \A q \in IndexPositions :
                bounds(q) /\ q # last.pos => position_to_index(q) # last.index
          /\ (size = <<10, 20>> /\ last.pos = <<5, 7>>) => last.index = 75
    /\ (pc = "indexed" /\ last.op = "index_to_position") =>
          /\ bounds(last.pos)
          /\ last.back = last.idx
          /\ (size = <<10, 20>> /\ last.idx = 75) => last.pos = <<5, 7>>


(***************************************************************************)
(* Properties of the style-mutation calls.                                 *)
(***************************************************************************)
\* the field a style-mutation call sets
OwnField(op) ==
    CASE op = "with" -> "foreground_color"
      [] op = "on" -> "background_color"
      [] op = "underline" -> "underline_color"
      [] op = "attribute" -> "attributes"
      [] op = "align" -> "alignment"

StyleCalled == last.op \in {"with", "on", "underline", "attribute", "align"}

\* C22: a style-mutation call changes only its own field and returns the
\* modified value: with(c) and on(c) set the foreground and the background
\* colour to c, whatever an earlier call had set; attribute(a) adds a and
\* keeps every attribute added earlier; every other field of the style is
\* unchanged; and the chain made on a styled text leaves the text alone and
\* gives it the same style as the chain made on a bare style
C22_StyleMutation ==
    StyleCalled =>
        /\ \A f \in DOMAIN last.before \ {OwnField(last.op)} :
               last.bare[f] = last.before[f]
        /\ last.op = "with" => last.bare.foreground_color = Some(last.arg)
        /\ last.op = "on" => last.bare.background_color = Some(last.arg)
        /\ last.op = "attribute" =>
               last.bare.attributes = last.before.attributes \cup {last.arg}
        /\ as_ref(last.styled) = last.bare
        /\ last.styled.content = last.before_styled.content

\* a third call of a chain that adds an attribute to a style which already
\* has another attribute and a replaced foreground colour
C22_Witness ==
    /\ last.op = "attribute"
    /\ ops = 3
    /\ last.before.attributes # {}
    /\ last.arg \notin last.before.attributes
    /\ last.before.foreground_color # None
    /\ last.bare.attributes = last.before.attributes \cup {last.arg}

(***************************************************************************)
(* Properties of the sub-pixel calls on one cell.                          *)
(***************************************************************************)
\* set_top(c) with a colour c has just been applied to a full-block cell
SetTopOnFullBlock ==
    /\ last.op = "set_top"
    /\ last.color # None
    /\ last.before.c = FULL_BLOCK

\* C27 as stated: set_top(c) on a full-block cell gives a lower-half-block
\* cell whose background slot holds the colour the bottom sub-pixel had,
\* at_top() reads c and at_bottom() reads the colour the bottom sub-pixel had
C27_SetTopFullBlockOriginal ==
    SetTopOnFullBlock =>
        /\ hidden[1].c = LOWER_HALF
        /\ hidden[1].style.background_color = at_bottom(last.before)
        /\ at_top(hidden[1]) = last.color
        /\ at_bottom(hidden[1]) = at_bottom(last.before)

\* C27 amended: set_top(c) on a full-block cell gives a lower-half-block
\* cell whose background slot holds c and whose foreground slot keeps the
\* colour the bottom sub-pixel had; at_top() reads c and at_bottom() reads
\* the colour the bottom sub-pixel had
C27_SetTopFullBlock ==
    SetTopOnFullBlock =>
        /\ hidden[1].c = LOWER_HALF
        /\ hidden[1].style.background_color = last.color
        /\ hidden[1].style.foreground_color = at_bottom(last.before)
        /\ at_top(hidden[1]) = last.color
        /\ at_bottom(hidden[1]) = at_bottom(last.before)

\* set_top(c) on a full block of another colour than c
C27_Witness ==
    /\ SetTopOnFullBlock
    /\ at_bottom(last.before) # None
    /\ at_bottom(last.before) # last.color
    /\ hidden[1].c = LOWER_HALF

\* both sub-pixels have just been cleared, one call after the other
ClearedBoth ==
    /\ last.op \in {"set_top", "set_bottom"}
    /\ last.prev_op \in {"set_top", "set_bottom"}
    /\ last.prev_op # last.op
    /\ last.color = None
    /\ last.prev_color = None

\* C28: from any cell, set_top(none) and set_bottom(none) in either order
\* leave a cell whose glyph is space and whose at_top() and at_bottom() are
\* both none
C28_ClearBoth ==
    ClearedBoth =>
        /\ hidden[1].c = SPACE
        /\ at_top(hidden[1]) = None
        /\ at_bottom(hidden[1]) = None

\* both sub-pixels cleared, bottom first, of a cell that showed two colours
C28_Witness ==
    /\ ClearedBoth
    /\ last.op = "set_top"
    /\ last.first.c \in {UPPER_HALF, LOWER_HALF}
    /\ at_top(last.first) # None
    /\ at_bottom(last.first) # None
    /\ hidden[1].c = SPACE

(***************************************************************************)
(* Properties of the terminal output of a render.                          *)
(***************************************************************************)
\* what a terminal shows of a cell: its glyph, colours and attributes
Shown(cell) ==
    [c |-> cell.c, foreground_color |-> cell.style.foreground_color,
     background_color |-> cell.style.background_color,
     attributes |-> cell.style.attributes]

\* positions compared: those of the cells the grid holds, those the model
\* draws at, and those printed on, as far as they pass the bounds check
MirrorPositions ==
    {p \in {index_to_position(i) : i \in 0..(Len(display) - 1)}
           \cup ProbeCells \cup DOMAIN screen : bounds(p)}

RenderedOk == last.op = "render" /\ last.ok

\* C23: after every successful render, whatever draws, erases, prints,
\* resizes and background-colour changes came before it, the screen cell at
\* each position equals the cell of the frame just rendered, which is the
\* cell the last-rendered grid holds for that position
C23_ScreenMirrorOriginal ==
    RenderedOk =>
        \A p \in MirrorPositions :
            /\ buffer_at(display, p) # None
            /\ ScreenAt(screen, p) = Shown(buffer_at(display, p)[1])

\* indices of the glyph prints among the commands of the last step
PrintIndices == {i \in 1..Len(out) : out[i].cmd = "Print"}

\* the terminal, reset when the frame starts, right before the i-th command
TerminalBefore(i) == terminal_commands(Terminal(<<>>), SubSeq(out, 1, i - 1), 1)

\* the grid a render emits: the write grid, which a successful render has
\* made the last-rendered grid
EmittedGrid == IF last.ok THEN display ELSE hidden

\* the cell the i-th command prints: the one at the cursor
PrintedCell(i) == EmittedGrid[position_to_index(TerminalBefore(i).cursor) + 1]

\* prints i < j of one frame with no print between them
ConsecutivePrints ==
    {ij \in PrintIndices \X PrintIndices :
        /\ ij[1] < ij[2]
        /\ \A k \in PrintIndices : ~(ij[1] < k /\ k < ij[2])}

\* between the i-th and the j-th command: a reset, and after it the colours
\* the style sets and its attributes
ResetThenStyle(i, j, style) ==
    \E r \in (i + 1)..(j - 1) :
        /\ out[r] = [cmd |-> "SetAttribute", attribute |-> "Reset"]
        /\ style.foreground_color # None =>
               \E k \in (r + 1)..(j - 1) :
                   out[k] = SetColorCmd("SetForegroundColor", style.foreground_color)
        /\ style.background_color # None =>
               \E k \in (r + 1)..(j - 1) :
                   out[k] = SetColorCmd("SetBackgroundColor", style.background_color)
        /\ \E k \in (r + 1)..(j - 1) :
               out[k] = [cmd |-> "SetAttributes", attributes |-> style.attributes]

\* C24: at every glyph print of a render the terminal's foreground,
\* background and attribute set (a reset clears all three, and the frame
\* starts from a reset terminal) equal the style of the cell being printed;
\* and whenever the attribute set changes between two cells emitted one
\* after the other, a reset is emitted between their prints and the new
\* cell's colours and attributes are emitted after the reset
C24_EffectiveStyle ==
    last.op = "render" =>
        /\ \A i \in PrintIndices :
             /\ out[i].c = PrintedCell(i).c
             /\ TerminalBefore(i).foreground_color = PrintedCell(i).style.foreground_color
             /\ TerminalBefore(i).background_color = PrintedCell(i).style.background_color
             /\ TerminalBefore(i).attributes = PrintedCell(i).style.attributes
        /\ \A ij \in ConsecutivePrints :
             PrintedCell(ij[1]).style.attributes # PrintedCell(ij[2]).style.attributes
                 => ResetThenStyle(ij[1], ij[2], PrintedCell(ij[2]).style)

\* a render that emits a bold cell with both colours set right after a cell
\* without attributes
C24_Witness ==
    /\ RenderedOk
    /\ \E ij \in ConsecutivePrints :
         /\ PrintedCell(ij[1]).style.attributes = NoAttributes
         /\ PrintedCell(ij[2]).style.attributes # NoAttributes
         /\ PrintedCell(ij[2]).style.foreground_color # None
         /\ PrintedCell(ij[2]).style.background_color # None

\* the commands set_terminal_styling queues
StyleCommands ==
    {"SetForegroundColor", "SetBackgroundColor", "SetAttribute", "SetAttributes"}

MoveIndices == {i \in 1..Len(out) : out[i].cmd = "MoveTo"}

\* the cursor move that belongs to the print at i: the last one before it
MoveBefore(i) ==
    CHOOSE m \in MoveIndices : m < i /\ \A k \in MoveIndices : k < i => k <= m

\* the style of the cell emitted before the print at i, the default style
\* for the first cell of the frame
PreviousStyle(i) ==
    IF \E h \in PrintIndices : h < i
    THEN PrintedCell(CHOOSE h \in PrintIndices :
                        h < i /\ \A k \in PrintIndices : k < i => k <= h).style
    ELSE ContentStyle_default

\* the commands of one render: per cell a cursor move right after the cell
\* before it, then style codes, only if the style differs from the cell
\* before it, then the glyph; one flush, the last command of a render
\* that succeeds
OrderedOutput ==
    /\ out # <<>> => out[1] = [cmd |-> "ResetColor"]
    /\ \A i \in 1..Len(out) : out[i] = Flush => i = Len(out) /\ last.ok
    /\ last.ok => /\ out[Len(out)] = Flush
                  /\ out[Len(out) - 1].cmd \in {"Print", "ResetColor"}
    /\ \A m \in MoveIndices : out[m - 1].cmd \in {"Print", "ResetColor"}
    /\ \A i \in PrintIndices :
         /\ \E m \in MoveIndices : m < i
         /\ \A k \in (MoveBefore(i) + 1)..(i - 1) : out[k].cmd \in StyleCommands
         /\ MoveBefore(i) + 1 < i => PrintedCell(i).style # PreviousStyle(i)
    /\ \A i \in 1..Len(out) :
         out[i].cmd \in StyleCommands => \E m \in MoveIndices : m < i

\* a render swaps the grids if and only if it got past its flush
SwapAfterFlush ==
    last'.op = "render" =>
        IF last'.ok
        THEN out'[Len(out')] = Flush /\ display' = hidden
        ELSE display' = display /\ hidden' = hidden

\* C25: within one render the order per emitted cell is cursor move, style
\* codes, glyph, with style codes only when the cell's style differs from
\* the cell emitted before it in that frame (from the default style for the
\* first cell); the output is flushed exactly once, after the last cell; and
\* the buffers are swapped only after the flush
C25_FrameOrder == [](last.op = "render" => OrderedOutput) /\ [][SwapAfterFlush]_vars

\* a render of two cells, one with style codes and one without
C25_Witness ==
    /\ RenderedOk
    /\ \E i \in PrintIndices : MoveBefore(i) + 1 < i
    /\ \E i \in PrintIndices : MoveBefore(i) + 1 = i
    /\ display # hidden

\* C26: swap() makes the former write grid the last-rendered grid, cell for
\* cell, and leaves every cell of the new write grid equal to the current
\* default_cell; hence after every successful render at(p) returns none for
\* every pixel p: nothing drawn in one frame is visible to the drawing calls
\* of the next
C26_SwapClears ==
    [][last'.op = "render" /\ last'.ok =>
          /\ display' = hidden
          /\ Len(hidden') = Len(hidden)
          /\ \A i \in 1..Len(hidden') : hidden'[i] = unwrap_or_default(default_cell')
          /\ \A p \in PixelPositions \cup {<<x, y>> : x \in 0..1, y \in 0..5} :
                 at(p)' = None]_vars

\* a render of a frame with something drawn on it, with a background colour
\* set: the drawing is in the last-rendered grid, the write grid is clear
C26_Witness ==
    /\ RenderedOk
    /\ default_cell # None
    /\ default_cell[1].style.background_color # None
    /\ \E i \in 1..Len(display) : at_top(display[i]) # None \/ at_bottom(display[i]) # None
    /\ AllDefault(hidden)

(***************************************************************************)
(* Properties of the background colour.                                    *)
(***************************************************************************)
\* C29: after set_background_color(c) every render shows colour c as the
\* background of every cell the frame did not draw on, until the background
\* colour is set again, also across resizes: in the frame a render has just
\* emitted, each cell no drawing call changed is a space on background c
C29_BackgroundOriginal ==
    RenderedOk /\ default_cell # None =>
        \A i \in 1..Len(display) :
            i \notin last.altered =>
                /\ display[i].c = SPACE
                /\ display[i].style.background_color = get_background_color

(***************************************************************************)
(* Properties of the way out of the frame loop.                            *)
(***************************************************************************)
\* the match on the key code has just called state.exit() for q, Esc or Ctrl-C
QuitKeyHandled == last.op = "on_key_return" /\ last.key \in QuitKeys

\* C30 as stated: once a quit key has been handled, run() eventually returns
\* Ok, given that time advances and events stop arriving
C30_QuitReturnsOkOriginal == QuitKeyHandled ~> (pc = "exited" /\ result = "Ok")

\* with the quit flag set the loop finishes the frame in progress and starts
\* no other: from the poll loop to one update, from it to one render, from
\* it out of run(), with Ok when the render succeeded
QuitFinishesFrame ==
    quit =>
        /\ pc = "poll" => pc' \in {"poll", "on_key", "update", "dropping", "panicking"}
        /\ pc = "update" => pc' \in {"update", "render", "dropping"}
        /\ pc = "update" /\ pc' = "dropping" => result' = "UpdateError"
        /\ pc = "render" => pc' = "dropping"
        /\ pc = "render" => result' = IF last'.ok THEN "Ok" ELSE "IoError"
        /\ pc = "dropping" => pc' = "exited" /\ result' = result
        /\ pc = "exited" => pc' = "exited"

\* C30 amended: once a quit key has been handled, run() eventually ends,
\* given that time advances and events stop arriving: it finishes the frame
\* in progress with one update followed by one render and starts no other
\* frame, and it returns Ok when that update and that render succeed; a
\* failing update, render or event read ends it with that error, a panic
\* by unwinding
C30_QuitEnds ==
    /\ QuitKeyHandled ~> pc = "exited"
    /\ [][QuitFinishesFrame]_vars

\* a quit key was handled after a first frame and the last update is running
C30_Witness ==
    /\ QuitKeyHandled
    /\ quit
    /\ pc = "update"
    /\ frames > 0
====
